---- MODULE Spec2Model ----
(***************************************************************************)
(* The request-processing cache of rail_pz_service (db/cache.py) over the  *)
(* Row Store (db/row.py and the table classes).                            *)
(*                                                                         *)
(* Every handler of Cache is a coroutine.  A task runs synchronously from  *)
(* one await of Row Store I/O to the next; each action below is one such   *)
(* synchronous segment, so tasks interleave exactly at the awaits of the   *)
(* source.  A nested coroutine's return or raise continues in its caller   *)
(* within the same segment.                                                *)
(***************************************************************************)
EXTENDS Integers, Sequences, FiniteSets, TLC

\* ------------------------------------------------------------------ bounds
MaxClock == 2
MaxRequests == 2
MaxDeletes == 1

\* ------------------------------------------------------- fixture: the rows
\* Rows present in the Row Store at start-up.  class_name is the dotted path
\* as a sequence of tokens.
AlgorithmTable ==
    [a \in {1, 2} |->
        IF a = 1
        THEN [name |-> "TrainZEstimator",
              class_name |-> <<"rail", "estimation", "TrainZEstimator">>]
        ELSE [name |-> "Foo", class_name |-> <<"does", "not", "exist", "Foo">>]]

CatalogTagTable ==
    [c \in {1, 2} |->
        IF c = 1
        THEN [name |-> "com_cam",
              class_name |-> <<"rail", "utils", "ComCamCatalogConfig">>]
        ELSE [name |-> "gone", class_name |-> <<"does", "not", "exist", "Bar">>]]

ModelTable ==
    [m \in {1} |-> [name |-> "com_cam_trainz_base", path |-> "m1.pkl",
                    algo_id |-> 1, catalog_tag_id |-> 1]]

\* config "ok" constructs; config "bad" makes the stage constructor raise.
EstimatorTable ==
    [e \in {1, 2, 3, 4} |->
        CASE e = 1 -> [name |-> "E1", algo_id |-> 1, catalog_tag_id |-> 1,
                       model_id |-> 1, config |-> "ok"]
          [] e = 2 -> [name |-> "E2", algo_id |-> 2, catalog_tag_id |-> 1,
                       model_id |-> 1, config |-> "ok"]
          [] e = 3 -> [name |-> "E3", algo_id |-> 1, catalog_tag_id |-> 2,
                       model_id |-> 1, config |-> "ok"]
          [] e = 4 -> [name |-> "E4", algo_id |-> 1, catalog_tag_id |-> 1,
                       model_id |-> 1, config |-> "bad"]]

\* Dataset 1 is file-backed, dataset 2 holds inline data.
DatasetTable ==
    [d \in {1, 2} |->
        IF d = 1
        THEN [name |-> "D1", path |-> "d1.hdf5", data |-> "None", n_objects |-> 3,
              catalog_tag_id |-> 1]
        ELSE [name |-> "D2", path |-> "None", data |-> "inline", n_objects |-> 1,
              catalog_tag_id |-> 1]]

\* The (estimator, dataset) pair the n-th Request is created for.
RequestInputs == <<<<1, 1>>, <<2, 2>>, <<1, 2>>, <<4, 1>>>>

\* The stages and catalog configurations the RAIL environment has registered.
pipeline_stages == {[module |-> <<"rail", "estimation">>, name |-> "TrainZEstimator"]}

catalog_config_classes == {[module |-> <<"rail", "utils">>, name |-> "ComCamCatalogConfig"]}

\* ------------------------------------------------------------------ state
VARIABLES
    Algorithm,      \* ids of the rows of table algorithm
    CatalogTag,     \* ids of the rows of table catalog_tag
    Model,          \* ids of the rows of table model
    Estimator,      \* ids of the rows of table estimator
    Dataset,        \* ids of the rows of table dataset
    Request,        \* table request: id -> row
    next_request_id,\* the autoincrement primary key of table request
    algorithms,     \* Cache._algorithms
    catalog_tags,   \* Cache._catalog_tags
    estimators,     \* Cache._estimators
    qp_files,       \* Cache._qp_files
    tree,           \* Cache._tree
    task,           \* each task's coroutine: handler, key, await it is at, outcome
    clock,          \* the wall clock datetime.now() reads
    ndeletes,       \* delete_row calls so far
    tables,         \* the tables as create_row fills them: table -> rows in id order
    files,          \* the archive area: path -> content of the file there
    ret,            \* the last create_row or load_* call and its outcome
    schema          \* whose create_row the loaders of Cache call

vars == <<Algorithm, CatalogTag, Model, Estimator, Dataset, Request, next_request_id,
          algorithms, catalog_tags, estimators, qp_files, tree, task, clock, ndeletes,
          tables, files, ret, schema>>

loadVars == <<tables, files, ret, schema>>

rowVars == <<Algorithm, CatalogTag, Model, Estimator, Dataset, Request, next_request_id,
             ndeletes, loadVars>>

cacheVars == <<algorithms, catalog_tags, estimators, qp_files, tree, task, clock>>

\* ---------------------------------------------------------------- values
None == [kind |-> "None"]

NoOutcome == [kind |-> "none"]

Value(v) == [kind |-> "value", value |-> v]

\* An exception: its class and its message, outermost layer first.
Exc(cls, msg) == [kind |-> "exc", cls |-> cls, msg |-> msg]

\* raise cls(f"{prefix} {e}") from e
Wrap(cls, prefix, e) == Exc(cls, <<prefix>> \o e.msg)

IsExc(o, cls) == o.kind = "exc" /\ o.cls = cls

\* del dict[key]
Drop(dict, key) == [k \in DOMAIN dict \ {key} |-> dict[k]]

\* dict[key] = value
Put(dict, key, value) ==
    [k \in DOMAIN dict \cup {key} |-> IF k = key THEN value ELSE dict[k]]

EmptyDict == [k \in {} |-> None]

\* The entries of dict whose key is in keep.
Restrict(dict, keep) == [k \in keep \cap DOMAIN dict |-> dict[k]]

\* No create_row and no load_* call has returned.
NoCall == [op |-> "none"]

\* The tables whose rows have a name.
NamedTables == {"Algorithm", "CatalogTag", "Model", "Estimator", "Dataset", "ObjectRef"}

\* No create_row and no load_* call has been made.
NoRowsCreated ==
    /\ tables = [table \in NamedTables |-> <<>>]
    /\ files = EmptyDict
    /\ ret = NoCall
    /\ schema = "declared"

\* datetime.now(): the reading of the clock at tick.
datetime_now(tick) == [kind |-> "datetime", tick |-> tick]

Front(s) == SubSeq(s, 1, Len(s) - 1)

Last(s) == s[Len(s)]


\* ------------------------------------------------------------ the Row Store
\* RowMixin.get_row: the row, or RAILMissingIDError when session.get finds none.
get_row(table, rows, row_id) ==
    IF row_id \in rows
    THEN Value(row_id)
    ELSE Exc("RAILMissingIDError", <<table, "not found">>)

\* ------------------------------------------------------- the class resolvers
\* PipelineStage.get_stage(class_name, module_name)
get_stage(class_name, module_name) ==
    IF [module |-> module_name, name |-> class_name] \in pipeline_stages
    THEN Value([kind |-> "class", name |-> class_name])
    ELSE Exc("StageNotFound", <<"StageNotFound">>)

\* CatalogConfigBase.get_class(class_name, module_name)
get_class(class_name, module_name) ==
    IF [module |-> module_name, name |-> class_name] \in catalog_config_classes
    THEN Value([kind |-> "class", name |-> class_name])
    ELSE Exc("KeyError", <<"KeyError">>)

\* Cache._load_algorithm_class
load_algorithm_class(algorithm) ==
    LET tokens == AlgorithmTable[algorithm].class_name
        module_name == Front(tokens)
        class_name == Last(tokens)
        got == get_stage(class_name, module_name)
    IN  IF IsExc(got, "StageNotFound")
        THEN Wrap("RAILImportError", "Failed to load stage", got)
        ELSE got

\* Cache._load_catalog_tag_class
load_catalog_tag_class(catalog_tag) ==
    LET tokens == CatalogTagTable[catalog_tag].class_name
        module_name == Front(tokens)
        class_name == Last(tokens)
        got == get_class(class_name, module_name)
    IN  IF IsExc(got, "KeyError")
        THEN Wrap("RAILImportError", "Failed to load catalog_tag", got)
        ELSE got

\* PZFactory.build_stage_instance(estimator.name, algo_class, model.path, **config):
\* a new stage object on every call, or whatever the stage constructor raises.
build_stage_instance(estimator, algo_class, serial) ==
    IF EstimatorTable[estimator].config = "ok"
    THEN Value([kind |-> "CatEstimator", name |-> EstimatorTable[estimator].name,
                algo |-> algo_class.name, serial |-> serial])
    ELSE Exc("StageError", <<"stage construction failed">>)

\* A destination that also carries the time of the run.
output_path_stamped(dataset, estimator) ==
    [kind |-> "path", root |-> "archive/qp_files",
     dataset |-> DatasetTable[dataset].name,
     file |-> <<EstimatorTable[estimator].name, clock>>]

\* os.path.join(config.storage.archive, "qp_files", dataset.name, f"{estimator.name}.hdf5")
output_path(dataset, estimator) ==
    [kind |-> "path", root |-> "archive/qp_files",
     dataset |-> DatasetTable[dataset].name,
     file |-> EstimatorTable[estimator].name]

\* --------------------------------------------------------------- coroutines
\* A task's coroutine.  op/key: the handler called and its argument; pc: the
\* await it is suspended at; request_, algo_class, estimator_instance, path, now,
\* tags (the CatalogTag rows still to visit), algos, catalog_tag_dict: locals
\* that live across an await; projection: what filter_for_dataset returned to
\* the caller of get_catalog_tag_tree; res: what the call returned or raised; did: the
\* external work the call performed; cleared: whether clear() ran "during"
\* the call or "after" it finished, or "no"; prev, prev_cleared: res and
\* cleared of the task's previous call, when that was a call of the same
\* handler with the same key.
IdleTask ==
    [op |-> "none", key |-> 0, pc |-> "idle", request_ |-> None,
     algo_class |-> None, estimator_instance |-> None, path |-> None, now |-> None,
     tags |-> <<>>, algos |-> <<>>, catalog_tag_dict |-> <<>>, projection |-> None,
     res |-> NoOutcome, did |-> {}, cleared |-> "no",
     prev |-> NoOutcome, prev_cleared |-> "no"]

\* What one synchronous segment works on: the four slot maps and the task.
Ctx(t) ==
    [algorithms |-> algorithms, catalog_tags |-> catalog_tags,
     estimators |-> estimators, qp_files |-> qp_files, tk |-> task[t]]

at(c, pc) == [c EXCEPT !.tk.pc = pc]

doing(c, what) == [c EXCEPT !.tk.did = @ \cup {what}]

\* The call is over: its locals are gone, its outcome is with the caller.
finish(c, outcome) ==
    [c EXCEPT !.tk = [IdleTask EXCEPT !.op = c.tk.op, !.key = c.tk.key, !.pc = "done",
                                      !.res = outcome, !.did = c.tk.did,
                                      !.cleared = c.tk.cleared, !.prev = c.tk.prev,
                                      !.prev_cleared = c.tk.prev_cleared]]

\* The Estimator a nested call works for.
estimator_key(c) ==
    IF c.tk.op = "get_estimator" THEN c.tk.key ELSE c.tk.request_.estimator_id

\* ---- Cache.get_qp_file and Cache.run_process_request: leaving the call
\* run_process_request returns request_; get_qp_file returns qp_file (the slot
\* is not written on success).
get_qp_file_return(c, qp_file) ==
    IF c.tk.op = "run_process_request"
    THEN finish(c, Value([kind |-> "Request", id |-> c.tk.key]))
    ELSE finish(c, Value(qp_file))

get_qp_file_raise(c, e) == finish(c, e)

\* except RAILRequestError as failed_request
get_qp_file_except(c, e) ==
    IF IsExc(e, "RAILRequestError")
    THEN get_qp_file_raise([c EXCEPT !.qp_files = Put(@, c.tk.key, None)],
                           Wrap("RAILRequestError", "Request failed because", e))
    ELSE get_qp_file_raise(c, e)

\* ---- Cache.get_estimator: leaving the call
get_estimator_raise(c, e) ==
    IF c.tk.op = "get_estimator" THEN finish(c, e) ELSE get_qp_file_except(c, e)

\* _process_request line 152: await Dataset.get_row
get_estimator_return(c, estimator) ==
    IF c.tk.op = "get_estimator"
    THEN finish(c, Value(estimator))
    ELSE at([c EXCEPT !.tk.estimator_instance = estimator], "dataset_row")

\* get_estimator's except clause with a bare "raise": the slot is marked and the
\* dependency's error goes on unchanged.
get_estimator_except_reraises(c, e) ==
    IF IsExc(e, "RAILImportError")
    THEN get_estimator_raise([c EXCEPT !.estimators = Put(@, estimator_key(c), None)], e)
    ELSE get_estimator_raise(c, e)

\* except RAILImportError as failed_import
get_estimator_except(c, e) ==
    IF IsExc(e, "RAILImportError")
    THEN get_estimator_raise(
             [c EXCEPT !.estimators = Put(@, estimator_key(c), None)],
             Wrap("RAILImportError", "Import of Estimator failed because", e))
    ELSE get_estimator_raise(c, e)

\* ---- Cache.get_catalog_tag_class
\* _build_estimator lines 130-131: apply the tag, await Model.get_row
get_catalog_tag_class_return(c, catalog_tag_class) ==
    IF c.tk.op = "get_catalog_tag_class"
    THEN finish(c, Value(catalog_tag_class))
    ELSE at(c, "model_row")

get_catalog_tag_class_raise(c, e) ==
    IF c.tk.op = "get_catalog_tag_class" THEN finish(c, e) ELSE get_estimator_except(c, e)

\* lines 327-334, up to the await
get_catalog_tag_class(c, key) ==
    IF key \in DOMAIN c.catalog_tags
    THEN IF c.catalog_tags[key] = None
         THEN at(c, "tag_failed_row")
         ELSE get_catalog_tag_class_return(c, c.catalog_tags[key])
    ELSE at(c, "tag_row")

\* ---- Cache.get_algo_class
\* _build_estimator line 129
get_algo_class_return(c, algo_class) ==
    IF c.tk.op = "get_algo_class"
    THEN finish(c, Value(algo_class))
    ELSE get_catalog_tag_class([c EXCEPT !.tk.algo_class = algo_class],
                               EstimatorTable[estimator_key(c)].catalog_tag_id)

\* Variant of _build_estimator lines 128-129: the CatalogTag class is resolved
\* although the Algorithm class could not be.
get_algo_class_raise_goes_on(c, e) ==
    IF c.tk.op = "get_algo_class" THEN finish(c, e)
    ELSE get_catalog_tag_class(c, EstimatorTable[estimator_key(c)].catalog_tag_id)

get_algo_class_raise(c, e) ==
    IF c.tk.op = "get_algo_class" THEN finish(c, e) ELSE get_estimator_except(c, e)

\* lines 283-290, up to the await
get_algo_class(c, key) ==
    IF key \in DOMAIN c.algorithms
    THEN IF c.algorithms[key] = None
         THEN at(c, "algo_failed_row")
         ELSE get_algo_class_return(c, c.algorithms[key])
    ELSE at(c, "algo_row")

\* ---- Cache.get_estimator, lines 371-378, up to the await
get_estimator(c, key) ==
    IF key \in DOMAIN c.estimators
    THEN IF c.estimators[key] = None
         THEN at(c, "est_failed_row")
         ELSE get_estimator_return(c, c.estimators[key])
    ELSE at(c, "est_row")

\* ---- Cache.get_qp_file, lines 413-420, up to the await
get_qp_file(c, key) ==
    IF key \in DOMAIN c.qp_files
    THEN IF c.qp_files[key] = None
         THEN at(c, "qp_failed_row")
         ELSE get_qp_file_return(c, c.qp_files[key])
    ELSE at(c, "qp_row")


\* ---------------------------------------- continuations after an await
algorithm_key(c) ==
    IF c.tk.op = "get_algo_class" THEN c.tk.key
    ELSE EstimatorTable[estimator_key(c)].algo_id

catalog_tag_key(c) ==
    IF c.tk.op = "get_catalog_tag_class" THEN c.tk.key
    ELSE EstimatorTable[estimator_key(c)].catalog_tag_id

\* get_algo_class lines 286-287 retrying the import instead: the error of a
\* Failed slot is then the one of a first attempt.
get_algo_class_failed_resume_retries(c, rows) ==
    LET key == algorithm_key(c)
        algo_ == get_row("Algorithm", rows, key)
        algo_class == load_algorithm_class(key)
        c1 == doing(c, "load_algorithm_class")
    IN  IF algo_.kind = "exc"
        THEN get_algo_class_raise(c, algo_)
        ELSE IF IsExc(algo_class, "RAILImportError")
        THEN get_algo_class_raise(
                 c1, Wrap("RAILImportError", "Import of Algorithm failed because", algo_class))
        ELSE get_algo_class_return(c1, algo_class.value)

\* get_algo_class lines 286-287 raising whether or not the row is found.
get_algo_class_failed_resume_any_row(c, rows) ==
    get_algo_class_raise(c, Exc("RAILImportError", <<"Failed to load alogrithm">>))

\* get_algo_class lines 286-287: the slot holds None
get_algo_class_failed_resume(c, rows) ==
    LET algo_ == get_row("Algorithm", rows, algorithm_key(c))
    IN  IF algo_.kind = "exc"
        THEN get_algo_class_raise(c, algo_)
        ELSE get_algo_class_raise(c, Exc("RAILImportError", <<"Failed to load alogrithm">>))

\* get_algo_class lines 290-297 without line 294: the failure is not recorded.
get_algo_class_resume_forgets(c, rows) ==
    LET key == algorithm_key(c)
        algo_ == get_row("Algorithm", rows, key)
        algo_class == load_algorithm_class(key)
        c1 == doing(c, "load_algorithm_class")
    IN  IF algo_.kind = "exc"
        THEN get_algo_class_raise(c, algo_)
        ELSE IF IsExc(algo_class, "RAILImportError")
        THEN get_algo_class_raise(
                 c1, Wrap("RAILImportError", "Import of Algorithm failed because", algo_class))
        ELSE get_algo_class_return(c1, algo_class.value)

\* get_algo_class lines 290-297: the slot is absent
get_algo_class_resume(c, rows) ==
    LET key == algorithm_key(c)
        algo_ == get_row("Algorithm", rows, key)
        algo_class == load_algorithm_class(key)
        c1 == doing(c, "load_algorithm_class")
    IN  IF algo_.kind = "exc"
        THEN get_algo_class_raise(c, algo_)
        ELSE IF IsExc(algo_class, "RAILImportError")
        THEN get_algo_class_raise(
                 [c1 EXCEPT !.algorithms = Put(@, key, None)],
                 Wrap("RAILImportError", "Import of Algorithm failed because", algo_class))
        ELSE get_algo_class_return(c1, algo_class.value)

\* get_catalog_tag_class lines 330-331: the slot holds None
get_catalog_tag_class_failed_resume(c, rows) ==
    LET catalog_tag_ == get_row("CatalogTag", rows, catalog_tag_key(c))
    IN  IF catalog_tag_.kind = "exc"
        THEN get_catalog_tag_class_raise(c, catalog_tag_)
        ELSE get_catalog_tag_class_raise(
                 c, Exc("RAILImportError", <<"Failed to load catalog_tags">>))

\* get_catalog_tag_class lines 334-340: the slot is absent
get_catalog_tag_class_resume(c, rows) ==
    LET key == catalog_tag_key(c)
        catalog_tag_ == get_row("CatalogTag", rows, key)
        catalog_tag_class == load_catalog_tag_class(key)
        c1 == doing(c, "load_catalog_tag_class")
    IN  IF catalog_tag_.kind = "exc"
        THEN get_catalog_tag_class_raise(c, catalog_tag_)
        ELSE IF IsExc(catalog_tag_class, "RAILImportError")
        THEN get_catalog_tag_class_raise(
                 [c1 EXCEPT !.catalog_tags = Put(@, key, None)],
                 Wrap("RAILImportError", "Import of CatalogTag failed because",
                      catalog_tag_class))
        ELSE get_catalog_tag_class_return(c1, catalog_tag_class.value)

\* _build_estimator lines 131-143: the Model row, then the stage instance.
\* A raise passes through get_estimator's except clause.
build_estimator_resume(c, rows, serial) ==
    LET key == estimator_key(c)
        model == get_row("Model", rows, EstimatorTable[key].model_id)
        c1 == doing(c, "Model.get_row")
        c2 == doing(c1, "build_stage_instance")
        estimator_instance == build_stage_instance(key, c.tk.algo_class, serial)
    IN  IF model.kind = "exc"
        THEN get_estimator_except(c1, model)
        ELSE IF estimator_instance.kind = "exc"
        THEN get_estimator_except(c2, estimator_instance)
        ELSE get_estimator_return(c2, estimator_instance.value)

\* get_estimator lines 374-375 with the failed slot popped before the raise, so
\* that the call after this one would retry.
get_estimator_failed_resume_pops(c, rows) ==
    LET key == estimator_key(c)
        estimator_ == get_row("Estimator", rows, key)
        c1 == [c EXCEPT !.estimators = Restrict(@, DOMAIN @ \ {key})]
    IN  IF estimator_.kind = "exc"
        THEN get_estimator_raise(c1, estimator_)
        ELSE get_estimator_raise(c1, Exc("RAILImportError", <<"Failed to load Estimator">>))

\* get_estimator lines 374-375: the slot holds None
get_estimator_failed_resume(c, rows) ==
    LET estimator_ == get_row("Estimator", rows, estimator_key(c))
    IN  IF estimator_.kind = "exc"
        THEN get_estimator_raise(c, estimator_)
        ELSE get_estimator_raise(c, Exc("RAILImportError", <<"Failed to load Estimator">>))

\* get_estimator lines 378-380: the slot is absent; _build_estimator line 128
get_estimator_resume(c, rows) ==
    LET key == estimator_key(c)
        estimator_ == get_row("Estimator", rows, key)
    IN  IF estimator_.kind = "exc"
        THEN get_estimator_raise(c, estimator_)
        ELSE get_algo_class(c, EstimatorTable[key].algo_id)

\* _process_request lines 150-151.  A raise passes through get_qp_file's
\* except clause.
process_request_resume(c, rows) ==
    LET estimator == get_row("Estimator", rows, c.tk.request_.estimator_id)
    IN  IF estimator.kind = "exc"
        THEN get_qp_file_except(c, estimator)
        ELSE get_estimator(c, c.tk.request_.estimator_id)

\* Variant of lines 159-168: the batch entry point runs whatever the Dataset
\* holds.
process_request_run_batch_only(c, rows, ext, time) ==
    LET d == c.tk.request_.dataset_id
        dataset == get_row("Dataset", rows, d)
        path == output_path(d, c.tk.request_.estimator_id)
        batch == doing(c, "run_cat_estimator_stage")
    IN  IF dataset.kind = "exc"
        THEN get_qp_file_except(c, dataset)
        ELSE IF ext = "ok"
        THEN at([batch EXCEPT !.tk.path = path, !.tk.now = time], "update_values")
        ELSE get_qp_file_except(batch, Exc("EstimationError", <<"estimation failed">>))

\* _process_request lines 152-170: the Dataset row, the destination and the
\* estimation run.  ext is what the stage does on this run: "ok", "run_raises"
\* (some exception of the library), "run_raises_request_error" (a stage may
\* raise any exception, RAILRequestError included) or, for inline data,
\* "write_raises".
process_request_run(c, rows, ext, time) ==
    LET d == c.tk.request_.dataset_id
        dataset == get_row("Dataset", rows, d)
        path == output_path(d, c.tk.request_.estimator_id)
        batch == doing(c, "run_cat_estimator_stage")
        single == doing(c, "estimate_single_pz")
        written == doing(single, "write")
        failure == IF ext = "run_raises_request_error"
                   THEN Exc("RAILRequestError", <<"raised by the stage">>)
                   ELSE Exc("EstimationError", <<"estimation failed">>)
    IN  IF dataset.kind = "exc"
        THEN get_qp_file_except(c, dataset)
        ELSE IF DatasetTable[d].path # "None"
        THEN IF ext = "ok"
             THEN at([batch EXCEPT !.tk.path = path, !.tk.now = time], "update_values")
             ELSE get_qp_file_except(batch, failure)
        ELSE CASE ext = "ok" ->
                    at([written EXCEPT !.tk.path = path, !.tk.now = time], "update_values")
               [] ext = "write_raises" -> get_qp_file_except(written, failure)
               [] OTHER -> get_qp_file_except(single, failure)

\* RowMixin.update_values flushing after the first column only.
update_values_first_column(table, row_id, qp_file_path, time_finished) ==
    IF row_id \in DOMAIN table
    THEN Value([table EXCEPT ![row_id].qp_file_path = qp_file_path])
    ELSE Exc("StaleDataError", <<"UPDATE matched no row">>)

\* RowMixin.update_values lines 331-334: both columns in one flush, or the
\* error of an UPDATE that matches no row.
update_values(table, row_id, qp_file_path, time_finished) ==
    IF row_id \in DOMAIN table
    THEN Value([table EXCEPT ![row_id].qp_file_path = qp_file_path,
                             ![row_id].time_finished = time_finished])
    ELSE Exc("StaleDataError", <<"UPDATE matched no row">>)

\* _process_request lines 171-175, up to the refresh
process_request_update(c, table) ==
    LET updated == update_values(table, c.tk.key, c.tk.path, c.tk.now)
        c1 == doing(c, "update_values")
    IN  IF updated.kind = "exc"
        THEN get_qp_file_except(c1, updated)
        ELSE at(c1, "update_refresh")

\* RowMixin.update_values line 335 and _process_request line 177
process_request_refresh(c, table) ==
    IF c.tk.key \in DOMAIN table
    THEN get_qp_file_return(c, c.tk.path)
    ELSE get_qp_file_except(c, Exc("InvalidRequestError", <<"could not refresh">>))

\* get_qp_file lines 416-417: the slot holds None
get_qp_file_failed_resume(c, table) ==
    LET request_ == get_row("Request", DOMAIN table, c.tk.key)
    IN  IF request_.kind = "exc"
        THEN get_qp_file_raise(c, request_)
        ELSE get_qp_file_raise(c, Exc("RAILRequestError", <<"Request failed">>))

\* get_qp_file lines 420-422: the slot is absent; _process_request line 150
get_qp_file_resume(c, table) ==
    LET request_ == get_row("Request", DOMAIN table, c.tk.key)
    IN  IF request_.kind = "exc"
        THEN get_qp_file_raise(c, request_)
        ELSE at([c EXCEPT !.tk.request_ =
                     [estimator_id |-> table[c.tk.key].estimator_id,
                      dataset_id |-> table[c.tk.key].dataset_id]],
                "proc_est_row")

\* run_process_request lines 735-736
run_process_request_resume(c, table) ==
    LET request_ == get_row("Request", DOMAIN table, c.tk.key)
    IN  IF request_.kind = "exc"
        THEN finish(c, request_)
        ELSE get_qp_file(c, c.tk.key)


\* ------------------------------------------------------------------ actions
Init ==
    /\ Algorithm = DOMAIN AlgorithmTable
    /\ CatalogTag = DOMAIN CatalogTagTable
    /\ Model = DOMAIN ModelTable
    /\ Estimator = DOMAIN EstimatorTable
    /\ Dataset = DOMAIN DatasetTable
    /\ Request = EmptyDict
    /\ next_request_id = 1
    /\ algorithms = EmptyDict
    /\ catalog_tags = EmptyDict
    /\ estimators = EmptyDict
    /\ qp_files = EmptyDict
    /\ tree = None
    /\ task = [t \in {"t1"} |-> IdleTask]
    /\ clock = 0
    /\ ndeletes = 0
    /\ NoRowsCreated

\* One synchronous segment of task t ends in context c.
Commit(t, c) ==
    /\ algorithms' = c.algorithms
    /\ catalog_tags' = c.catalog_tags
    /\ estimators' = c.estimators
    /\ qp_files' = c.qp_files
    /\ task' = [task EXCEPT ![t] = c.tk]

\* Task t calls handler op with argument key.
Begin(t, op, key) ==
    [Ctx(t) EXCEPT !.tk =
        IF task[t].pc = "done" /\ task[t].op = op /\ task[t].key = key
        THEN [IdleTask EXCEPT !.op = op, !.key = key, !.prev = task[t].res,
                              !.prev_cleared = task[t].cleared]
        ELSE [IdleTask EXCEPT !.op = op, !.key = key]]

CanCall(t) == task[t].pc \in {"idle", "done"}

Call_get_algo_class(t, key) ==
    /\ CanCall(t)
    /\ Commit(t, get_algo_class(Begin(t, "get_algo_class", key), key))
    /\ UNCHANGED <<rowVars, tree, clock>>

Call_get_catalog_tag_class(t, key) ==
    /\ CanCall(t)
    /\ Commit(t, get_catalog_tag_class(Begin(t, "get_catalog_tag_class", key), key))
    /\ UNCHANGED <<rowVars, tree, clock>>

Call_get_estimator(t, key) ==
    /\ CanCall(t)
    /\ Commit(t, get_estimator(Begin(t, "get_estimator", key), key))
    /\ UNCHANGED <<rowVars, tree, clock>>

Call_get_qp_file(t, key) ==
    /\ CanCall(t)
    /\ Commit(t, get_qp_file(Begin(t, "get_qp_file", key), key))
    /\ UNCHANGED <<rowVars, tree, clock>>

\* run_process_request line 735: await Request.get_row
Call_run_process_request(t, key) ==
    /\ CanCall(t)
    /\ Commit(t, at(Begin(t, "run_process_request", key), "run_row"))
    /\ UNCHANGED <<rowVars, tree, clock>>

Resume_get_algo_class_failed(t) ==
    /\ task[t].pc = "algo_failed_row"
    /\ Commit(t, get_algo_class_failed_resume(Ctx(t), Algorithm))
    /\ UNCHANGED <<rowVars, tree, clock>>

Resume_get_algo_class(t) ==
    /\ task[t].pc = "algo_row"
    /\ Commit(t, get_algo_class_resume(Ctx(t), Algorithm))
    /\ UNCHANGED <<rowVars, tree, clock>>

Resume_get_catalog_tag_class_failed(t) ==
    /\ task[t].pc = "tag_failed_row"
    /\ Commit(t, get_catalog_tag_class_failed_resume(Ctx(t), CatalogTag))
    /\ UNCHANGED <<rowVars, tree, clock>>

Resume_get_catalog_tag_class(t) ==
    /\ task[t].pc = "tag_row"
    /\ Commit(t, get_catalog_tag_class_resume(Ctx(t), CatalogTag))
    /\ UNCHANGED <<rowVars, tree, clock>>

\* The identity of a stage object not yet in use: a new object is distinct
\* from every object some slot or task still refers to.
serials_in_use ==
    LET held(v) == IF v.kind = "CatEstimator" THEN {v.serial} ELSE {}
        out(o) == IF o.kind = "value" THEN held(o.value) ELSE {}
    IN  UNION ({held(estimators[k]) : k \in DOMAIN estimators}
               \cup {held(task[t].estimator_instance) : t \in DOMAIN task}
               \cup {out(task[t].res) : t \in DOMAIN task}
               \cup {out(task[t].prev) : t \in DOMAIN task})

fresh_serial == CHOOSE n \in 1..(Cardinality(serials_in_use) + 1) : n \notin serials_in_use

Resume_build_estimator(t) ==
    /\ task[t].pc = "model_row"
    /\ Commit(t, build_estimator_resume(Ctx(t), Model, fresh_serial))
    /\ UNCHANGED <<rowVars, tree, clock>>

Resume_get_estimator_failed(t) ==
    /\ task[t].pc = "est_failed_row"
    /\ Commit(t, get_estimator_failed_resume(Ctx(t), Estimator))
    /\ UNCHANGED <<rowVars, tree, clock>>

Resume_get_estimator(t) ==
    /\ task[t].pc = "est_row"
    /\ Commit(t, get_estimator_resume(Ctx(t), Estimator))
    /\ UNCHANGED <<rowVars, tree, clock>>

Resume_process_request(t) ==
    /\ task[t].pc = "proc_est_row"
    /\ Commit(t, process_request_resume(Ctx(t), Estimator))
    /\ UNCHANGED <<rowVars, tree, clock>>

\* Variant: the run itself stores the destination in the Request row.
Run_process_request_writes_path(t, ext) ==
    /\ task[t].pc = "dataset_row"
    /\ clock < MaxClock
    /\ LET c == process_request_run(Ctx(t), Dataset, ext, datetime_now(clock + 1))
       IN  /\ Commit(t, c)
           /\ clock' = IF c.tk.pc = "update_values" THEN clock + 1 ELSE clock
           /\ Request' = IF c.tk.pc = "update_values" /\ task[t].key \in DOMAIN Request
                         THEN [Request EXCEPT ![task[t].key].qp_file_path = c.tk.path]
                         ELSE Request
    /\ UNCHANGED <<Algorithm, CatalogTag, Model, Estimator, Dataset, next_request_id,
                   ndeletes, loadVars, tree>>

\* datetime.now() is read once the run has produced its result.
Run_process_request(t, ext) ==
    /\ task[t].pc = "dataset_row"
    /\ clock < MaxClock
    /\ LET c == process_request_run(Ctx(t), Dataset, ext, datetime_now(clock + 1))
       IN  /\ Commit(t, c)
           /\ clock' = IF c.tk.pc = "update_values" THEN clock + 1 ELSE clock
    /\ UNCHANGED <<rowVars, tree>>

Update_process_request(t) ==
    /\ task[t].pc = "update_values"
    /\ Commit(t, process_request_update(Ctx(t), Request))
    /\ LET updated == update_values(Request, task[t].key, task[t].path, task[t].now)
       IN  Request' = IF updated.kind = "exc" THEN Request ELSE updated.value
    /\ UNCHANGED <<Algorithm, CatalogTag, Model, Estimator, Dataset, next_request_id,
                   ndeletes, loadVars, tree, clock>>

Refresh_process_request(t) ==
    /\ task[t].pc = "update_refresh"
    /\ Commit(t, process_request_refresh(Ctx(t), Request))
    /\ UNCHANGED <<rowVars, tree, clock>>

Resume_get_qp_file_failed(t) ==
    /\ task[t].pc = "qp_failed_row"
    /\ Commit(t, get_qp_file_failed_resume(Ctx(t), Request))
    /\ UNCHANGED <<rowVars, tree, clock>>

Resume_get_qp_file(t) ==
    /\ task[t].pc = "qp_row"
    /\ Commit(t, get_qp_file_resume(Ctx(t), Request))
    /\ UNCHANGED <<rowVars, tree, clock>>

Resume_run_process_request(t) ==
    /\ task[t].pc = "run_row"
    /\ Commit(t, run_process_request_resume(Ctx(t), Request))
    /\ UNCHANGED <<rowVars, tree, clock>>

\* The task running call t is cancelled while the call is suspended at an
\* await: CancelledError is raised there, and no except clause of Cache
\* catches it (they name RAILImportError and RAILRequestError only).
Cancel(t) ==
    /\ task[t].pc \notin {"idle", "done"}
    /\ Commit(t, finish(Ctx(t), Exc("CancelledError", <<>>)))
    /\ UNCHANGED <<rowVars, tree, clock>>

\* ---- Cache._build_catalog_tag_tree
\* RowMixin.get_rows: limit=100 rows per call unless the caller asks for more.
get_rows_limit == 100

\* The ids of S in ascending order.
sorted(S) ==
    [i \in 1..Cardinality(S) |->
        CHOOSE x \in S : Cardinality({y \in S : y < x}) = i - 1]

\* RowMixin.get_rows: select(cls).offset(skip).limit(limit), in primary key
\* order.
get_rows(rows, skip, limit) ==
    LET all == sorted(rows)
        last == IF Len(all) < skip + limit THEN Len(all) ELSE skip + limit
    IN  SubSeq(all, skip + 1, last)

\* The name of a CatalogTag row: of the fixture, or of a further row.
catalog_tag_name(catalog_tag) ==
    IF catalog_tag \in DOMAIN CatalogTagTable
    THEN CatalogTagTable[catalog_tag].name
    ELSE "catalog_tag_" \o ToString(catalog_tag)

\* The tables of the Row Store as one synchronous segment reads them.
RowStore ==
    [Algorithm |-> Algorithm, CatalogTag |-> CatalogTag, Model |-> Model,
     Estimator |-> Estimator, Dataset |-> Dataset, Request |-> Request]

\* models.Request.model_validate(request_)
request_model(table, r) ==
    [id |-> r, estimator_id |-> table[r].estimator_id, dataset_id |-> table[r].dataset_id,
     qp_file_path |-> table[r].qp_file_path, time_finished |-> table[r].time_finished]

Reverse(s) == [i \in 1..Len(s) |-> s[Len(s) + 1 - i]]

\* lines 194-203: the DatasetLeaf of dataset_, its requests in the order the
\* relationship dataset_.requests_ lists them (no order_by: either order).
dataset_leaf(dataset_, table, reversed) ==
    LET ids == sorted({r \in DOMAIN table : table[r].dataset_id = dataset_})
        requests_ == IF reversed THEN Reverse(ids) ELSE ids
    IN  [dataset |-> dataset_,
         requests |-> [i \in 1..Len(requests_) |-> request_model(table, requests_[i])]]

\* lines 209-222: the ModelLeaf of model_, every EstimatorLeaf with request=None
model_leaf(model_, store) ==
    [model |-> model_,
     estimators |-> [e \in {e \in store.Estimator : EstimatorTable[e].model_id = model_} |->
                        [estimator |-> e, request |-> None]]]

\* Variant of line 205: algos_lists starts empty, so only the Algorithms of
\* the tag's Models get an AlgoLeaf.
catalog_tag_leaf_of_models(catalog_tag_, algos, store, reversed) ==
    LET datasets_ == {d \in store.Dataset : DatasetTable[d].catalog_tag_id = catalog_tag_}
        models_ == {m \in store.Model : ModelTable[m].catalog_tag_id = catalog_tag_}
        algos_lists == {ModelTable[m].algo_id : m \in models_}
        dataset_tree == [d \in datasets_ |-> dataset_leaf(d, store.Request, reversed)]
        algo_tree == [a \in algos_lists |->
                         [algo |-> a,
                          models |-> [m \in {m \in models_ : ModelTable[m].algo_id = a} |->
                                         model_leaf(m, store)]]]
    IN  IF catalog_tag_ \notin store.CatalogTag
        THEN Exc("InvalidRequestError", <<"could not refresh">>)
        ELSE IF \E a \in algos_lists : a \notin store.Algorithm
        THEN Exc("RAILMissingIDError", <<"Algorithm", "not found">>)
        ELSE Value([catalog_tag |-> catalog_tag_, algos |-> algo_tree,
                    datasets |-> dataset_tree])

\* lines 189-246: the CatalogTagLeaf of one CatalogTag row, or the error of
\* the refresh of a deleted row or of Algorithm.get_row.
catalog_tag_leaf(catalog_tag_, algos, store, reversed) ==
    LET datasets_ == {d \in store.Dataset : DatasetTable[d].catalog_tag_id = catalog_tag_}
        models_ == {m \in store.Model : ModelTable[m].catalog_tag_id = catalog_tag_}
        algos_lists == {algos[i] : i \in 1..Len(algos)}
                       \cup {ModelTable[m].algo_id : m \in models_}
        dataset_tree == [d \in datasets_ |-> dataset_leaf(d, store.Request, reversed)]
        algo_tree == [a \in algos_lists |->
                         [algo |-> a,
                          models |-> [m \in {m \in models_ : ModelTable[m].algo_id = a} |->
                                         model_leaf(m, store)]]]
    IN  IF catalog_tag_ \notin store.CatalogTag
        THEN Exc("InvalidRequestError", <<"could not refresh">>)
        ELSE IF \E a \in algos_lists : a \notin store.Algorithm
        THEN Exc("RAILMissingIDError", <<"Algorithm", "not found">>)
        ELSE Value([catalog_tag |-> catalog_tag_, algos |-> algo_tree,
                    datasets |-> dataset_tree])

\* lines 249-252
build_catalog_tag_tree(catalog_tag_dict) ==
    [kind |-> "CatalogTagTree", catalog_tags |-> catalog_tag_dict]

\* line 183: catalog_tags = await CatalogTag.get_rows(session)
build_catalog_tag_tree_tags(c, store) ==
    at(doing([c EXCEPT !.tk.tags = get_rows(store.CatalogTag, 0, get_rows_limit)],
             "get_rows"),
       "tree_algos")

\* line 186: algos = await Algorithm.get_rows(session)
build_catalog_tag_tree_algos(c, store) ==
    at([c EXCEPT !.tk.algos = get_rows(store.Algorithm, 0, get_rows_limit)], "tree_leaf")

\* lines 189-247: one pass of the loop over catalog_tags
build_catalog_tag_tree_leaf(c, store, reversed) ==
    LET catalog_tag_ == Head(c.tk.tags)
        leaf == catalog_tag_leaf(catalog_tag_, c.tk.algos, store, reversed)
    IN  IF leaf.kind = "exc"
        THEN finish(c, leaf)
        ELSE [c EXCEPT !.tk.tags = Tail(@),
                       !.tk.catalog_tag_dict =
                           Put(@, catalog_tag_name(catalog_tag_), leaf.value)]

\* ---- Cache.get_catalog_tag_tree
\* Variant: every call builds.
Call_get_catalog_tag_tree_always_builds(t, rebuild) ==
    /\ CanCall(t)
    /\ Commit(t, at(Begin(t, "get_catalog_tag_tree", IF rebuild THEN 1 ELSE 0), "build_tree"))
    /\ UNCHANGED <<rowVars, tree, clock>>

\* line 760: with a snapshot and no rebuild the call returns without awaiting
Call_get_catalog_tag_tree(t, rebuild) ==
    /\ CanCall(t)
    /\ LET c == Begin(t, "get_catalog_tag_tree", IF rebuild THEN 1 ELSE 0)
       IN  IF tree = None \/ rebuild
           THEN Commit(t, at(c, "build_tree"))
           ELSE Commit(t, finish(c, Value(tree)))
    /\ UNCHANGED <<rowVars, tree, clock>>

Resume_build_catalog_tag_tree_tags(t) ==
    /\ task[t].pc = "build_tree"
    /\ Commit(t, build_catalog_tag_tree_tags(Ctx(t), RowStore))
    /\ UNCHANGED <<rowVars, tree, clock>>

Resume_build_catalog_tag_tree_algos(t) ==
    /\ task[t].pc = "tree_algos"
    /\ Commit(t, build_catalog_tag_tree_algos(Ctx(t), RowStore))
    /\ UNCHANGED <<rowVars, tree, clock>>

\* Variant: every pass of the loop installs what has been built so far.
Resume_build_catalog_tag_tree_leaf_installs(t, reversed) ==
    /\ task[t].pc = "tree_leaf"
    /\ task[t].tags # <<>>
    /\ LET c == build_catalog_tag_tree_leaf(Ctx(t), RowStore, reversed)
       IN  /\ Commit(t, c)
           /\ tree' = IF c.tk.pc = "done" THEN tree
                      ELSE build_catalog_tag_tree(c.tk.catalog_tag_dict)
    /\ UNCHANGED <<rowVars, clock>>

Resume_build_catalog_tag_tree_leaf(t, reversed) ==
    /\ task[t].pc = "tree_leaf"
    /\ task[t].tags # <<>>
    /\ Commit(t, build_catalog_tag_tree_leaf(Ctx(t), RowStore, reversed))
    /\ UNCHANGED <<rowVars, tree, clock>>

\* lines 761-762: the assignment and the return, once the build has returned
Resume_get_catalog_tag_tree(t) ==
    /\ task[t].pc = "tree_leaf"
    /\ task[t].tags = <<>>
    /\ tree' = build_catalog_tag_tree(task[t].catalog_tag_dict)
    /\ Commit(t, finish(Ctx(t), Value(tree')))
    /\ UNCHANGED <<rowVars, clock>>

\* ---- CatalogTagLeaf.filter_for_dataset (models/trees.py)
RECURSIVE index_by_estimator_first(_, _)
\* Variant: the first Request of an Estimator stays.
index_by_estimator_first(requests, request_by_estimator) ==
    IF requests = <<>> THEN request_by_estimator
    ELSE index_by_estimator_first(
             Tail(requests),
             IF Head(requests).estimator_id \in DOMAIN request_by_estimator
             THEN request_by_estimator
             ELSE Put(request_by_estimator, Head(requests).estimator_id, Head(requests)))

RECURSIVE index_by_estimator(_, _)
\* lines 65-66: for request_ in requests_for_dataset.values():
\*                  request_by_estimator[request_.estimator_id] = request_
index_by_estimator(requests, request_by_estimator) ==
    IF requests = <<>> THEN request_by_estimator
    ELSE index_by_estimator(
             Tail(requests),
             Put(request_by_estimator, Head(requests).estimator_id, Head(requests)))

\* lines 74-78: estimator_.request = request_by_estimator.get(estimator_id, None)
\* on every EstimatorLeaf under algos.
attach_requests(algos, request_by_estimator) ==
    [a \in DOMAIN algos |->
        [algo |-> algos[a].algo,
         models |->
            [m \in DOMAIN algos[a].models |->
                [model |-> algos[a].models[m].model,
                 estimators |->
                    [e \in DOMAIN algos[a].models[m].estimators |->
                        [estimator |-> algos[a].models[m].estimators[e].estimator,
                         request |-> IF e \in DOMAIN request_by_estimator
                                     THEN request_by_estimator[e]
                                     ELSE None]]]]]]

\* The call self.filter_for_dataset(dataset_id), dataset_id = 0 for None:
\* the_copy is what it returns, self is the leaf after the call.  The
\* AlgoLeaf, ModelLeaf and EstimatorLeaf objects of the_copy are those of
\* self (algos=self.algos hands over instances, which are not copied).
filter_for_dataset(self, dataset_id) ==
    LET found == dataset_id # 0 /\ dataset_id \in DOMAIN self.datasets
        the_dataset == IF found
                       THEN [kind |-> "Dataset", id |-> self.datasets[dataset_id].dataset]
                       ELSE None
        requests_for_dataset == IF found THEN self.datasets[dataset_id].requests ELSE <<>>
        request_by_estimator == index_by_estimator(requests_for_dataset, EmptyDict)
        algos == IF found THEN attach_requests(self.algos, request_by_estimator)
                 ELSE self.algos
    IN  [the_copy |-> [kind |-> "CatalogTagDatasetTree", algos |-> algos,
                       dataset |-> the_dataset, catalog_tag |-> self.catalog_tag,
                       request_by_estimator |-> request_by_estimator],
         self |-> [self EXCEPT !.algos = algos]]

\* A projection self.filter_for_dataset returned earlier, as it reads once
\* self has changed: its algos are the AlgoLeaf objects of self (line 67).
held_projection(the_copy, self) == [the_copy EXCEPT !.algos = self.algos]

\* The caller of get_catalog_tag_tree projects the leaf of one tag of the tree
\* it received (server/web_app.py:112-127).  The tree it holds is the Cache's
\* snapshot object unless clear() has dropped that since.
Filter_for_dataset(t, name, dataset_id) ==
    /\ task[t].pc = "done"
    /\ task[t].op = "get_catalog_tag_tree"
    /\ task[t].res.kind = "value"
    /\ name \in DOMAIN task[t].res.value.catalog_tags
    /\ LET the_tree == task[t].res.value
           call == filter_for_dataset(the_tree.catalog_tags[name], dataset_id)
           after == [the_tree EXCEPT !.catalog_tags[name] = call.self]
       IN  /\ task' = [task EXCEPT ![t].res = Value(after),
                                   ![t].projection = call.the_copy,
                                   ![t].did = @ \cup {"filter_for_dataset"}]
           /\ tree' = IF tree = the_tree THEN after ELSE tree
    /\ UNCHANGED <<rowVars, algorithms, catalog_tags, estimators, qp_files, clock>>

\* ---- Cache.clear
\* clear() without line 47: the Algorithm slots survive.
cleared_cache_keeps_algorithms ==
    [algorithms |-> algorithms, catalog_tags |-> EmptyDict, estimators |-> EmptyDict,
     qp_files |-> EmptyDict, tree |-> None]

\* clear() without line 49: the Estimator slots survive.
cleared_cache_keeps_estimators ==
    [algorithms |-> EmptyDict, catalog_tags |-> EmptyDict, estimators |-> estimators,
     qp_files |-> EmptyDict, tree |-> None]

cleared_cache ==
    [algorithms |-> EmptyDict, catalog_tags |-> EmptyDict, estimators |-> EmptyDict,
     qp_files |-> EmptyDict, tree |-> None]

clear ==
    /\ algorithms' = cleared_cache.algorithms
    /\ catalog_tags' = cleared_cache.catalog_tags
    /\ estimators' = cleared_cache.estimators
    /\ qp_files' = cleared_cache.qp_files
    /\ tree' = cleared_cache.tree
    /\ task' = [t \in DOMAIN task |->
                  CASE task[t].pc = "idle" -> task[t]
                    [] task[t].pc = "done" -> [task[t] EXCEPT !.cleared = "after"]
                    [] OTHER -> [task[t] EXCEPT !.cleared = "during"]]
    /\ UNCHANGED <<rowVars, clock>>

\* ---- the Row Store's writers
\* Request.get_create_kwargs and RowMixin.create_row: qp_file_path and
\* time_finished take their column default.
create_request(estimator_id, dataset_id) ==
    [estimator_id |-> estimator_id, dataset_id |-> dataset_id,
     qp_file_path |-> None, time_finished |-> None]

Create_Request(estimator_id, dataset_id) ==
    /\ next_request_id <= MaxRequests
    /\ <<estimator_id, dataset_id>> = RequestInputs[next_request_id]
    /\ estimator_id \in Estimator
    /\ dataset_id \in Dataset
    /\ Request' = Put(Request, next_request_id, create_request(estimator_id, dataset_id))
    /\ next_request_id' = next_request_id + 1
    /\ UNCHANGED <<Algorithm, CatalogTag, Model, Estimator, Dataset, ndeletes, loadVars,
                   algorithms, catalog_tags, estimators, qp_files, tree, task, clock>>

\* RowMixin.delete_row, with the ondelete="CASCADE" of the referencing tables.
Delete_rows(algos, tags, models, ests, datasets) ==
    LET models1 == models \cup {m \in Model : ModelTable[m].algo_id \in algos
                                              \/ ModelTable[m].catalog_tag_id \in tags}
        ests1 == ests \cup {e \in Estimator : \/ EstimatorTable[e].algo_id \in algos
                                              \/ EstimatorTable[e].catalog_tag_id \in tags
                                              \/ EstimatorTable[e].model_id \in models1}
        datasets1 == datasets \cup {d \in Dataset : DatasetTable[d].catalog_tag_id \in tags}
    IN  /\ Algorithm' = Algorithm \ algos
        /\ CatalogTag' = CatalogTag \ tags
        /\ Model' = Model \ models1
        /\ Estimator' = Estimator \ ests1
        /\ Dataset' = Dataset \ datasets1
        /\ Request' = Restrict(Request,
                               {r \in DOMAIN Request :
                                    /\ Request[r].estimator_id \notin ests1
                                    /\ Request[r].dataset_id \notin datasets1})

Delete_row(table, row_id) ==
    /\ ndeletes < MaxDeletes
    /\ CASE table = "Algorithm" ->
              row_id \in Algorithm /\ Delete_rows({row_id}, {}, {}, {}, {})
         [] table = "CatalogTag" ->
              row_id \in CatalogTag /\ Delete_rows({}, {row_id}, {}, {}, {})
         [] table = "Model" ->
              row_id \in Model /\ Delete_rows({}, {}, {row_id}, {}, {})
         [] table = "Estimator" ->
              row_id \in Estimator /\ Delete_rows({}, {}, {}, {row_id}, {})
         [] table = "Dataset" ->
              row_id \in Dataset /\ Delete_rows({}, {}, {}, {}, {row_id})
         [] OTHER ->
              /\ row_id \in DOMAIN Request
              /\ Request' = Restrict(Request, DOMAIN Request \ {row_id})
              /\ UNCHANGED <<Algorithm, CatalogTag, Model, Estimator, Dataset>>
    /\ ndeletes' = ndeletes + 1
    /\ UNCHANGED <<loadVars, next_request_id, algorithms, catalog_tags, estimators, qp_files,
                   tree, task, clock>>

\* The rows an administrator deletes: one of each table but Estimator, whose
\* rows go with the rows they reference.
Deletable ==
    {<<"Algorithm", 2>>, <<"CatalogTag", 2>>, <<"Model", 1>>, <<"Dataset", 1>>,
     <<"Request", 1>>}

\* ---- RowMixin.create_row and the get_create_kwargs of the tables
\* The most rows create_row puts into one table.
MaxRows == 2

\* A file path and the inline values of a Dataset.
a_path == [kind |-> "path", parts |-> <<"not", "really", "a", "path">>]

data_of(size) == [kind |-> "dict", size |-> size]

\* The names of the rows of a table.
names_of(table_rows) == {table_rows[i].name : i \in 1..Len(table_rows)}

\* RowMixin.get_row_by_name: rows.first() of select(cls).where(cls.name == name)
get_row_by_name(table_rows, name) ==
    IF name \in names_of(table_rows)
    THEN Value(table_rows[CHOOSE i \in 1..Len(table_rows) :
                              /\ table_rows[i].name = name
                              /\ \A j \in 1..(i - 1) : table_rows[j].name # name])
    ELSE Exc("RAILMissingNameError", <<"not found">>)

\* The unique constraints the table classes declare: name is unique in
\* ObjectRef (unique=True) and only indexed elsewhere (index=True).
unique_name(table) == table = "ObjectRef"

\* The uniqueness tests/db expect of create_row: a second row of the same
\* name is refused in every table.
unique_name_expected(table) == TRUE

\* Dataset.validate_data_for_path and Dataset.validate_data: `return 0` in
\* rail/pz_service/db/dataset.py, `raise NotImplementedError()` in
\* rail_pz_service/db/dataset.py; implemented says which of the two runs.
validate_data(implemented) ==
    IF implemented THEN Value(0) ELSE Exc("NotImplementedError", <<>>)

\* Dataset.get_create_kwargs, lines 53-79.  kwargs.path is None or a path,
\* kwargs.data is None, an empty dict (size 0) or a dict of values.
Dataset_get_create_kwargs(catalog_tag_rows, kwargs) ==
    LET catalog_tag_ == get_row_by_name(catalog_tag_rows, kwargs.catalog_tag_name)
        n_objects == validate_data(kwargs.implemented)
        truthy == kwargs.data # None /\ kwargs.data.size > 0
    IN  IF catalog_tag_.kind = "exc" THEN catalog_tag_
        ELSE IF kwargs.path # None \/ truthy
        THEN IF n_objects.kind = "exc" THEN n_objects
             ELSE Value([name |-> kwargs.name, path |-> kwargs.path, data |-> kwargs.data,
                         class_name |-> None])
        ELSE Exc("RAILMissingRowCreateInputError", <<"either path or data">>)

\* cls.get_create_kwargs of the other tables: name and the columns given (the
\* rows the keywords name exist).
get_create_kwargs(all_tables, table, kwargs) ==
    IF table = "Dataset"
    THEN Dataset_get_create_kwargs(all_tables["CatalogTag"], kwargs)
    ELSE Value([name |-> kwargs.name, path |-> kwargs.path, data |-> kwargs.data,
                class_name |-> kwargs.class_name])

\* The INSERT of the flush: refused when it breaks a unique constraint.
insert(table_rows, unique, create_kwargs) ==
    IF unique /\ create_kwargs.name \in names_of(table_rows)
    THEN Exc("IntegrityError", <<"UNIQUE constraint failed">>)
    ELSE Value([id |-> Len(table_rows) + 1, name |-> create_kwargs.name,
                path |-> create_kwargs.path, data |-> create_kwargs.data,
                class_name |-> create_kwargs.class_name])

\* RowMixin.create_row, lines 265-277.  session.add(row) inside the try only
\* registers the row; the INSERT runs in the flush at the exit of
\* session.begin_nested(), outside the try, so its IntegrityError is not
\* converted.
create_row(all_tables, table, kwargs) ==
    LET create_kwargs == get_create_kwargs(all_tables, table, kwargs)
        row == insert(all_tables[table], unique_name(table), create_kwargs.value)
    IN  IF create_kwargs.kind = "exc"
        THEN [tables |-> all_tables, res |-> create_kwargs]
        ELSE IF row.kind = "exc"
        THEN [tables |-> all_tables, res |-> row]
        ELSE [tables |-> [all_tables EXCEPT ![table] = Append(@, row.value)], res |-> row]

\* create_row as the tests of tests/db and the except clauses of Cache expect
\* it: a row whose name exists is refused with the service's integrity
\* error.
create_row_expected(all_tables, table, kwargs) ==
    LET create_kwargs == get_create_kwargs(all_tables, table, kwargs)
        row == insert(all_tables[table], unique_name_expected(table), create_kwargs.value)
    IN  IF create_kwargs.kind = "exc"
        THEN [tables |-> all_tables, res |-> create_kwargs]
        ELSE IF row.kind = "exc"
        THEN [tables |-> all_tables, res |-> Exc("RAILIntegrityError", row.msg)]
        ELSE [tables |-> [all_tables EXCEPT ![table] = Append(@, row.value)], res |-> row]

\* The create_row the tables answer with.
table_create_row(all_tables, table, kwargs) ==
    IF schema = "declared"
    THEN create_row(all_tables, table, kwargs)
    ELSE create_row_expected(all_tables, table, kwargs)

\* What the calls of this section leave alone.
loadFrame ==
    <<Algorithm, CatalogTag, Model, Estimator, Dataset, Request, next_request_id,
      ndeletes, schema, cacheVars>>

\* A caller creates a row: await db.<table>.create_row(session, **kwargs).
Create_row(table, kwargs) ==
    /\ Len(tables[table]) < MaxRows
    /\ LET call == table_create_row(tables, table, kwargs)
       IN  /\ tables' = call.tables
           /\ ret' = [op |-> "create_row", table |-> table, kwargs |-> kwargs,
                      res |-> call.res]
    /\ UNCHANGED <<files, loadFrame>>

\* ---- Cache.load_*_from_rail_env and Cache.load_*_from_file
\* The CatEstimator subclasses of RailStage.pipeline_stages, and
\* CatalogConfigBase.subclasses(): name and class, in iteration order.
cat_estimator_stages ==
    <<[name |-> "TrainZEstimator", class |-> <<"rail", "estimation", "TrainZEstimator">>],
      [name |-> "KNearNeighEstimator", class |-> <<"rail", "estimation", "KNearNeighEstimator">>]>>

catalog_config_dict ==
    <<[name |-> "com_cam", class |-> <<"rail", "utils", "ComCamCatalogConfig">>],
      [name |-> "dc2", class |-> <<"rail", "utils", "Dc2CatalogConfig">>]>>

\* The keywords of a create_row call that names a class.
class_kwargs(entry) ==
    [name |-> entry.name, path |-> None, data |-> None, class_name |-> entry.class,
     catalog_tag_name |-> None, implemented |-> TRUE]

\* The keywords of a create_row call that names an archive file.
file_kwargs(name, output_name, tag_name) ==
    [name |-> name, path |-> output_name, data |-> None, class_name |-> None,
     catalog_tag_name |-> tag_name, implemented |-> TRUE]

\* load_algorithms_from_rail_env, lines 453-476, from stage number i on.
\* st is [tables, algos_]; the result is [tables, res].
RECURSIVE load_algorithms_loop(_, _)
load_algorithms_loop(st, i) ==
    IF i > Len(cat_estimator_stages) THEN [tables |-> st.tables, res |-> Value(st.algos_)]
    ELSE LET the_class == cat_estimator_stages[i].class
             call == table_create_row(st.tables, "Algorithm", class_kwargs(cat_estimator_stages[i]))
             new_algo == call.res.value
             check_class == new_algo.class_name
         IN  IF call.res.kind = "exc"
             THEN IF call.res.cls = "RAILIntegrityError"
                  THEN load_algorithms_loop(st, i + 1)
                  ELSE [tables |-> call.tables, res |-> call.res]
             ELSE IF check_class # the_class
             THEN [tables |-> call.tables,
                   res |-> Exc("RAILIntegrityError", <<"the_class != check_class">>)]
             ELSE load_algorithms_loop([tables |-> call.tables,
                                        algos_ |-> Append(st.algos_, new_algo)], i + 1)

load_algorithms_from_rail_env(all_tables) ==
    load_algorithms_loop([tables |-> all_tables, algos_ |-> <<>>], 1)

\* load_catalog_tags_from_rail_env, lines 499-516, from tag number i on.
\* st is [tables, catalog_tags_, new_catalog_tag]; new_catalog_tag is None
\* while the local variable is unbound.  Line 509 passes on after the
\* RAILIntegrityError of create_row, so lines 510-515 run with the variable
\* as the earlier iterations left it.
RECURSIVE load_catalog_tags_loop(_, _)
load_catalog_tags_loop(st, i) ==
    IF i > Len(catalog_config_dict)
    THEN [tables |-> st.tables, res |-> Value(st.catalog_tags_)]
    ELSE LET a_class == catalog_config_dict[i].class
             call == table_create_row(st.tables, "CatalogTag",
                                      class_kwargs(catalog_config_dict[i]))
             passed == call.res.kind = "exc" /\ call.res.cls = "RAILIntegrityError"
             new_catalog_tag == IF passed THEN st.new_catalog_tag ELSE call.res.value
             check_class == new_catalog_tag.class_name
         IN  IF call.res.kind = "exc" /\ ~passed
             THEN [tables |-> call.tables, res |-> call.res]
             ELSE IF new_catalog_tag = None
             THEN [tables |-> call.tables,
                   res |-> Exc("UnboundLocalError", <<"new_catalog_tag">>)]
             ELSE IF check_class # a_class
             THEN [tables |-> call.tables,
                   res |-> Exc("RAILIntegrityError", <<"a_class != check_class">>)]
             ELSE load_catalog_tags_loop(
                      [tables |-> call.tables,
                       catalog_tags_ |-> Append(st.catalog_tags_, new_catalog_tag),
                       new_catalog_tag |-> new_catalog_tag], i + 1)

load_catalog_tags_from_rail_env(all_tables) ==
    load_catalog_tags_loop([tables |-> all_tables, catalog_tags_ |-> <<>>,
                            new_catalog_tag |-> None], 1)

\* os.path.join(config.storage.archive, "models", algo_name, tag_name,
\* f"{name}{suffix}") and its "datasets" counterpart.
model_output_name(algo_name, tag_name, name) ==
    [kind |-> "path", parts |-> <<"archive", "models", algo_name, tag_name, name>>]

dataset_output_name(tag_name, name) ==
    [kind |-> "path", parts |-> <<"archive", "datasets", tag_name, name>>]

\* shutil.copy(path, output_abspath), content being what path holds.
shutil_copy(all_files, content, output_abspath) == Put(all_files, output_abspath, content)

\* os.unlink(output_abspath)
os_unlink(all_files, output_abspath) == Drop(all_files, output_abspath)

\* load_model_from_file lines 579-595 and load_dataset_from_file lines
\* 647-663: copy the file to the archive, create the row, and unlink the
\* copy if create_row raised RAILIntegrityError.
load_file(all_tables, all_files, table, kwargs, content) ==
    LET copied == shutil_copy(all_files, content, kwargs.path)
        call == table_create_row(all_tables, table, kwargs)
    IN  IF call.res.kind = "exc" /\ call.res.cls = "RAILIntegrityError"
        THEN [tables |-> call.tables, files |-> os_unlink(copied, kwargs.path),
              res |-> Exc("RAILIntegrityError", call.res.msg)]
        ELSE [tables |-> call.tables, files |-> copied, res |-> call.res]

\* load_model_from_file, lines 562-595
load_model_from_file(all_tables, all_files, name, content, algo_name, tag_name) ==
    LET catalog_tag == get_row_by_name(all_tables["CatalogTag"], tag_name)
        algo == get_row_by_name(all_tables["Algorithm"], algo_name)
    IN  IF catalog_tag.kind = "exc"
        THEN [tables |-> all_tables, files |-> all_files, res |-> catalog_tag]
        ELSE IF algo.kind = "exc"
        THEN [tables |-> all_tables, files |-> all_files, res |-> algo]
        ELSE load_file(all_tables, all_files, "Model",
                       file_kwargs(name, model_output_name(algo_name, tag_name, name),
                                   tag_name),
                       content)

\* load_dataset_from_file, lines 637-663
load_dataset_from_file(all_tables, all_files, name, content, tag_name) ==
    LET catalog_tag == get_row_by_name(all_tables["CatalogTag"], tag_name)
    IN  IF catalog_tag.kind = "exc"
        THEN [tables |-> all_tables, files |-> all_files, res |-> catalog_tag]
        ELSE load_file(all_tables, all_files, "Dataset",
                       file_kwargs(name, dataset_output_name(tag_name, name),
                                   tag_name),
                       content)

\* await cache.load_algorithms_from_rail_env(session)
Load_algorithms_from_rail_env ==
    /\ Len(tables["Algorithm"]) + Len(cat_estimator_stages) <= MaxRows * Len(cat_estimator_stages)
    /\ LET call == load_algorithms_from_rail_env(tables)
       IN  /\ tables' = call.tables
           /\ ret' = [op |-> "load_algorithms_from_rail_env", res |-> call.res]
    /\ UNCHANGED <<files, loadFrame>>

\* await cache.load_catalog_tags_from_rail_env(session)
Load_catalog_tags_from_rail_env ==
    /\ Len(tables["CatalogTag"]) + Len(catalog_config_dict)
           <= MaxRows * Len(catalog_config_dict)
    /\ LET call == load_catalog_tags_from_rail_env(tables)
       IN  /\ tables' = call.tables
           /\ ret' = [op |-> "load_catalog_tags_from_rail_env", res |-> call.res]
    /\ UNCHANGED <<files, loadFrame>>

\* await cache.load_model_from_file(session, name, path, algo_name,
\* tag_name), the file at path holding content.
Load_model_from_file(name, content, algo_name, tag_name) ==
    /\ Len(tables["Model"]) < MaxRows
    /\ LET call == load_model_from_file(tables, files, name, content, algo_name,
                                        tag_name)
       IN  /\ tables' = call.tables
           /\ files' = call.files
           /\ ret' = [op |-> "load_model_from_file", name |-> name,
                      output_name |-> model_output_name(algo_name, tag_name, name),
                      res |-> call.res]
    /\ UNCHANGED loadFrame

\* await cache.load_dataset_from_file(session, name, path, tag_name)
Load_dataset_from_file(name, content, tag_name) ==
    /\ Len(tables["Dataset"]) < MaxRows
    /\ LET call == load_dataset_from_file(tables, files, name, content, tag_name)
       IN  /\ tables' = call.tables
           /\ files' = call.files
           /\ ret' = [op |-> "load_dataset_from_file", name |-> name,
                      output_name |-> dataset_output_name(tag_name, name),
                      res |-> call.res]
    /\ UNCHANGED loadFrame

Next ==
    \/ \E t \in DOMAIN task, key \in DOMAIN AlgorithmTable : Call_get_algo_class(t, key)
    \/ \E t \in DOMAIN task, key \in DOMAIN CatalogTagTable : Call_get_catalog_tag_class(t, key)
    \/ \E t \in DOMAIN task, key \in DOMAIN EstimatorTable : Call_get_estimator(t, key)
    \/ \E t \in DOMAIN task, key \in 1..MaxRequests : Call_get_qp_file(t, key)
    \/ \E t \in DOMAIN task, key \in 1..MaxRequests : Call_run_process_request(t, key)
    \/ \E t \in DOMAIN task, rebuild \in BOOLEAN : Call_get_catalog_tag_tree(t, rebuild)
    \/ \E t \in DOMAIN task : Resume_get_algo_class_failed(t)
    \/ \E t \in DOMAIN task : Resume_get_algo_class(t)
    \/ \E t \in DOMAIN task : Resume_get_catalog_tag_class_failed(t)
    \/ \E t \in DOMAIN task : Resume_get_catalog_tag_class(t)
    \/ \E t \in DOMAIN task : Resume_build_estimator(t)
    \/ \E t \in DOMAIN task : Resume_get_estimator_failed(t)
    \/ \E t \in DOMAIN task : Resume_get_estimator(t)
    \/ \E t \in DOMAIN task : Resume_process_request(t)
    \/ \E t \in DOMAIN task,
          ext \in {"ok", "run_raises", "run_raises_request_error", "write_raises"} :
           Run_process_request(t, ext)
    \/ \E t \in DOMAIN task : Update_process_request(t)
    \/ \E t \in DOMAIN task : Refresh_process_request(t)
    \/ \E t \in DOMAIN task : Resume_get_qp_file_failed(t)
    \/ \E t \in DOMAIN task : Resume_get_qp_file(t)
    \/ \E t \in DOMAIN task : Resume_run_process_request(t)
    \/ \E t \in DOMAIN task : Resume_build_catalog_tag_tree_tags(t)
    \/ \E t \in DOMAIN task : Resume_build_catalog_tag_tree_algos(t)
    \/ \E t \in DOMAIN task, reversed \in BOOLEAN :
           Resume_build_catalog_tag_tree_leaf(t, reversed)
    \/ \E t \in DOMAIN task : Resume_get_catalog_tag_tree(t)
    \/ clear
    \/ \E e \in DOMAIN EstimatorTable, d \in DOMAIN DatasetTable : Create_Request(e, d)
    \/ \E row \in Deletable : Delete_row(row[1], row[2])

Spec == Init /\ [][Next]_vars


\* =================================================================== claims
Done(t, op) == task[t].pc = "done" /\ task[t].op = op

\* Task t's finished call repeats its previous call (same handler, same key)
\* with no clear() since that previous call began.
Repeats(t) == task[t].prev_cleared = "no" /\ task[t].cleared = "no"

\* Task t's finished call follows a clear() that ran after its previous call
\* (same handler, same key) had finished.
AfterClear(t) == task[t].prev_cleared = "after"

ImportOps == {"get_algo_class", "get_catalog_tag_class", "get_estimator"}

Resolvers == {"load_algorithm_class", "load_catalog_tag_class", "build_stage_instance"}

Runs == {"run_cat_estimator_stage", "estimate_single_pz"}

\* The Row Store's own errors (a row the call needs has been deleted), which
\* are no failure of a resolution, a construction or an estimation run.
RowStoreErrors == {"RAILMissingIDError", "StaleDataError", "InvalidRequestError"}

\* Task t's finished call did not end in an error of the Row Store.
RowsFound(t) == ~(task[t].res.kind = "exc" /\ task[t].res.cls \in RowStoreErrors)

\* The table and the slot map a handler's key belongs to.
RowsOf(op) ==
    CASE op = "get_algo_class" -> Algorithm
      [] op = "get_catalog_tag_class" -> CatalogTag
      [] op = "get_estimator" -> Estimator
      [] OTHER -> DOMAIN Request

SlotsOf(op) ==
    CASE op = "get_algo_class" -> algorithms
      [] op = "get_catalog_tag_class" -> catalog_tags
      [] op = "get_estimator" -> estimators
      [] OTHER -> qp_files

AllReset ==
    /\ algorithms = EmptyDict
    /\ catalog_tags = EmptyDict
    /\ estimators = EmptyDict
    /\ qp_files = EmptyDict
    /\ tree = None

\* ---- C1
\* C1 (as claimed): a get_estimator(k) call that repeats a successful
\* get_estimator(k), with no clear() between them, returns the identical
\* instance and does not invoke the estimator builder (calls that end in an
\* error of the Row Store set aside).
C1_SecondCallReturnsCachedInstance ==
    \A t \in DOMAIN task :
        (/\ Done(t, "get_estimator")
         /\ task[t].prev.kind = "value"
         /\ Repeats(t)
         /\ RowsFound(t))
        => /\ task[t].res = task[t].prev
           /\ "build_stage_instance" \notin task[t].did

\* ---- C2
\* C2 (as claimed): once get_algo_class, get_catalog_tag_class or get_estimator
\* has failed for key k with an import failure, a repeated call before clear()
\* raises an import failure again and invokes neither resolver nor builder.
C2_FailureIsCached ==
    \A t \in DOMAIN task :
        (/\ task[t].pc = "done"
         /\ task[t].op \in ImportOps
         /\ IsExc(task[t].prev, "RAILImportError")
         /\ Repeats(t))
        => /\ IsExc(task[t].res, "RAILImportError")
           /\ task[t].did \cap Resolvers = {}

\* C2 (amended): the repeated call invokes neither resolver nor builder; it
\* raises an import failure again, or the Row Store's RAILMissingIDError when
\* row k has been deleted from the Row Store.
C2_FailureIsCachedWhileRowExists ==
    \A t \in DOMAIN task :
        (/\ task[t].pc = "done"
         /\ task[t].op \in ImportOps
         /\ IsExc(task[t].prev, "RAILImportError")
         /\ Repeats(t))
        => /\ task[t].did \cap Resolvers = {}
           /\ \/ IsExc(task[t].res, "RAILImportError")
              \/ /\ IsExc(task[t].res, "RAILMissingIDError")
                 /\ task[t].key \notin RowsOf(task[t].op)

C2_Witness ==
    \E t \in DOMAIN task :
        /\ Done(t, "get_algo_class")
        /\ IsExc(task[t].prev, "RAILImportError")
        /\ Repeats(t)
        /\ IsExc(task[t].res, "RAILImportError")

\* ---- C3
Keeps(dict, dict2) == \A k \in DOMAIN dict : k \in DOMAIN dict2 /\ dict2[k] = dict[k]

\* C3: in every step other than clear(), each slot of the four maps that holds
\* a state (Failed or a value) holds the same state afterwards.
C3_SlotsAreTerminal ==
    [][clear \/ (/\ Keeps(algorithms, algorithms')
                 /\ Keeps(catalog_tags, catalog_tags')
                 /\ Keeps(estimators, estimators')
                 /\ Keeps(qp_files, qp_files'))]_vars

C3_Witness ==
    \E t \in DOMAIN task :
        /\ Done(t, "get_estimator")
        /\ IsExc(task[t].prev, "RAILImportError")
        /\ Repeats(t)
        /\ task[t].key \in DOMAIN estimators
        /\ estimators[task[t].key] = None

Dropped ==
    \/ \E k \in DOMAIN algorithms : k \notin DOMAIN algorithms'
    \/ \E k \in DOMAIN catalog_tags : k \notin DOMAIN catalog_tags'
    \/ \E k \in DOMAIN estimators : k \notin DOMAIN estimators'
    \/ \E k \in DOMAIN qp_files : k \notin DOMAIN qp_files'
    \/ tree # None /\ tree' = None

\* C5: a step that removes an entry from one of the four slot maps, or drops
\* the tree snapshot, leaves all four maps empty and the snapshot absent.
C5_ClearIsOneStep == [][Dropped => AllReset']_vars

C5_Witness ==
    \E t \in DOMAIN task :
        /\ task[t].pc = "done"
        /\ task[t].op \in ImportOps
        /\ IsExc(task[t].res, "RAILImportError")
        /\ task[t].cleared = "after"
        /\ AllReset

\* ---- C6
\* C6 (as claimed): a get_qp_file(r) call that repeats a successful
\* get_qp_file(r), with no clear() between them, returns the same path, does
\* not run the estimation entry point and does not write to the Request row
\* (calls that end in an error of the Row Store set aside).
C6_SecondCallReturnsCachedPath ==
    \A t \in DOMAIN task :
        (/\ Done(t, "get_qp_file")
         /\ task[t].prev.kind = "value"
         /\ Repeats(t)
         /\ RowsFound(t))
        => /\ task[t].res = task[t].prev
           /\ task[t].did \cap (Runs \cup {"update_values"}) = {}

\* ---- C7
Finished(row) == row.qp_file_path # None /\ row.time_finished # None

\* C7 (as claimed): no step changes qp_file_path or time_finished of a Request
\* row that has both set.
C7_FinishedRequestIsAppendOnly ==
    [][\A r \in DOMAIN Request :
           (Finished(Request[r]) /\ r \in DOMAIN Request')
           => /\ Request'[r].qp_file_path = Request[r].qp_file_path
              /\ Request'[r].time_finished = Request[r].time_finished]_vars

\* ---- C8
\* C8: in every state each Request row has qp_file_path and time_finished
\* both None or both set.
C8_FinishedTogether ==
    \A r \in DOMAIN Request :
        (Request[r].qp_file_path = None) <=> (Request[r].time_finished = None)

C8_Witness ==
    \E t \in DOMAIN task, r \in DOMAIN Request :
        /\ task[t].pc = "update_refresh"
        /\ task[t].key = r
        /\ Finished(Request[r])

\* ---- C9
\* C9 (as claimed): a get_qp_file(r) call that fails in the estimator's
\* construction or in the estimation run raises RAILRequestError and leaves
\* slot r Failed, and the call that repeats it raises RAILRequestError
\* without running the estimation.
C9_FailureIsRequestError ==
    \A t \in DOMAIN task :
        /\ (/\ Done(t, "get_qp_file")
            /\ task[t].res.kind = "exc"
            /\ RowsFound(t)
            /\ task[t].cleared = "no")
           => /\ IsExc(task[t].res, "RAILRequestError")
              /\ task[t].key \in DOMAIN qp_files
              /\ qp_files[task[t].key] = None
        /\ (/\ Done(t, "get_qp_file")
            /\ task[t].prev.kind = "exc"
            /\ task[t].prev.cls \notin RowStoreErrors
            /\ Repeats(t))
           => /\ \/ IsExc(task[t].res, "RAILRequestError")
                 \/ IsExc(task[t].res, "RAILMissingIDError")
              /\ task[t].did \cap Runs = {}

\* ---- C10
\* The import failures get_algo_class and get_catalog_tag_class raise.
DependencyFailures ==
    {Wrap("RAILImportError", "Import of Algorithm failed because", load_algorithm_class(a)) :
         a \in {k \in DOMAIN AlgorithmTable : load_algorithm_class(k).kind = "exc"}}
    \cup {Wrap("RAILImportError", "Import of CatalogTag failed because",
               load_catalog_tag_class(g)) :
              g \in {k \in DOMAIN CatalogTagTable : load_catalog_tag_class(k).kind = "exc"}}
    \cup {Exc("RAILImportError", <<"Failed to load alogrithm">>),
          Exc("RAILImportError", <<"Failed to load catalog_tags">>)}

\* Task t's finished get_estimator call raised an import failure that is not
\* the one of a Failed Estimator slot: a dependency's resolution failed.
DependencyFailed(t) ==
    /\ Done(t, "get_estimator")
    /\ IsExc(task[t].res, "RAILImportError")
    /\ task[t].res # Exc("RAILImportError", <<"Failed to load Estimator">>)

\* After a dependency failure of get_estimator(e) slot e is Failed, and the
\* call that repeats it raises without resolving a class or fetching the
\* Model row.
ShortCircuits(t) ==
    /\ (DependencyFailed(t) /\ task[t].cleared = "no")
       => /\ task[t].key \in DOMAIN estimators
          /\ estimators[task[t].key] = None
    /\ (/\ Done(t, "get_estimator")
        /\ IsExc(task[t].prev, "RAILImportError")
        /\ Repeats(t))
       => /\ task[t].res.kind = "exc"
          /\ task[t].did = {}

\* C10 (as claimed): when get_estimator(e) fails because a dependency's
\* resolution fails, the caller receives the dependency's own import failure,
\* slot e is Failed and a repeated call short-circuits.
C10_DependencyFailureUnwrapped ==
    \A t \in DOMAIN task :
        /\ DependencyFailed(t) => task[t].res \in DependencyFailures
        /\ ShortCircuits(t)

\* C10 (amended): the caller receives a RAILImportError "Import of Estimator
\* failed because ..." that wraps the dependency's import failure; slot e is
\* Failed and a repeated call short-circuits.
C10_DependencyFailureWrappedOnce ==
    \A t \in DOMAIN task :
        /\ DependencyFailed(t)
           => \E d \in DependencyFailures :
                  task[t].res = Wrap("RAILImportError", "Import of Estimator failed because", d)
        /\ ShortCircuits(t)

C10_Witness ==
    \E t \in DOMAIN task :
        /\ Done(t, "get_estimator")
        /\ Repeats(t)
        /\ \E d \in DependencyFailures :
               task[t].prev = Wrap("RAILImportError", "Import of Estimator failed because", d)
        /\ task[t].res = Exc("RAILImportError", <<"Failed to load Estimator">>)
        /\ task[t].did = {}

\* ---- C11
\* The errors the service defines (common/errors.py).
TypedErrors == {"RAILImportError", "RAILRequestError", "RAILMissingIDError"}

\* C11 (as claimed): a get_estimator(e) call in which the estimator builder
\* itself raises leaves slot e Failed and raises a typed error, and the call
\* that repeats it does not invoke the builder.
C11_BuilderFailureIsCached ==
    \A t \in DOMAIN task :
        /\ (/\ Done(t, "get_estimator")
            /\ "build_stage_instance" \in task[t].did
            /\ task[t].res.kind = "exc"
            /\ task[t].cleared = "no")
           => /\ task[t].key \in DOMAIN estimators
              /\ estimators[task[t].key] = None
              /\ task[t].res.cls \in TypedErrors
        /\ (/\ Done(t, "get_estimator")
            /\ IsExc(task[t].prev, "StageError")
            /\ Repeats(t))
           => "build_stage_instance" \notin task[t].did

\* ---- C12
FourOps == ImportOps \cup {"get_qp_file"}

\* Task t's finished call repeats, with no clear() in between, a call of the
\* same handler for the same key that failed with an import failure or a
\* request failure.
RepeatsFailure(t) ==
    /\ task[t].pc = "done"
    /\ task[t].op \in FourOps
    /\ task[t].prev.kind = "exc"
    /\ task[t].prev.cls \in {"RAILImportError", "RAILRequestError"}
    /\ Repeats(t)

FailedSlotMessages ==
    {<<"Failed to load alogrithm">>, <<"Failed to load catalog_tags">>,
     <<"Failed to load Estimator">>, <<"Request failed">>}

ReadsAbsentRow(t) ==
    \/ /\ task[t].op = "get_algo_class"
       /\ task[t].pc \in {"algo_row", "algo_failed_row"}
       /\ task[t].key \notin Algorithm
    \/ /\ task[t].op = "get_catalog_tag_class"
       /\ task[t].pc \in {"tag_row", "tag_failed_row"}
       /\ task[t].key \notin CatalogTag
    \/ /\ task[t].op = "get_estimator"
       /\ task[t].pc \in {"est_row", "est_failed_row"}
       /\ task[t].key \notin Estimator
    \/ /\ task[t].op = "get_estimator"
       /\ task[t].pc = "model_row"
       /\ EstimatorTable[task[t].key].model_id \notin Model
    \/ /\ task[t].op = "get_qp_file"
       /\ task[t].pc \in {"qp_row", "qp_failed_row"}
       /\ task[t].key \notin DOMAIN Request

\* The error RowMixin.get_row raises, as it leaves get_row.
MissingIdErrors ==
    {Exc("RAILMissingIDError", <<table, "not found">>) :
         table \in {"Algorithm", "CatalogTag", "Model", "Estimator", "Request"}}

\* C13: the step in which a call resumes from the read of an absent row ends
\* the call with the Row Store's RAILMissingIDError, not wrapped, and changes
\* none of the four slot maps; and a step that changes a slot map is clear()
\* or ends a call with an import failure or a request failure, so that a call
\* that ends with RAILMissingIDError has changed no slot map.
C13_MissingIdPropagates ==
    [][/\ \A t \in DOMAIN task :
              (ReadsAbsentRow(t) /\ task'[t].pc # task[t].pc)
              => /\ task'[t].pc = "done"
                 /\ task'[t].res \in MissingIdErrors
                 /\ UNCHANGED <<algorithms, catalog_tags, estimators, qp_files>>
       /\ ~UNCHANGED <<algorithms, catalog_tags, estimators, qp_files>>
          => \/ clear
             \/ \E t \in DOMAIN task :
                    /\ task[t].pc # "done"
                    /\ task'[t].pc = "done"
                    /\ task'[t].res.kind = "exc"
                    /\ task'[t].res.cls \in {"RAILImportError", "RAILRequestError"}]_vars

C13_Witness ==
    \E t \in DOMAIN task :
        /\ Done(t, "get_algo_class")
        /\ IsExc(task[t].prev, "RAILImportError")
        /\ Repeats(t)
        /\ task[t].res = Exc("RAILMissingIDError", <<"Algorithm", "not found">>)
        /\ task[t].key \in DOMAIN algorithms
        /\ algorithms[task[t].key] = None

\* ---- C14
\* Two Requests for the same Estimator and the same Dataset, and one task that
\* obtains their artifacts.
InitArtifact ==
    /\ Algorithm = DOMAIN AlgorithmTable
    /\ CatalogTag = DOMAIN CatalogTagTable
    /\ Model = DOMAIN ModelTable
    /\ Estimator = DOMAIN EstimatorTable
    /\ Dataset = DOMAIN DatasetTable
    /\ Request = [r \in 1..MaxRequests |-> create_request(1, 1)]
    /\ next_request_id = MaxRequests + 1
    /\ algorithms = EmptyDict
    /\ catalog_tags = EmptyDict
    /\ estimators = EmptyDict
    /\ qp_files = EmptyDict
    /\ tree = None
    /\ task = [t \in {"t1"} |-> IdleTask]
    /\ clock = 0
    /\ ndeletes = 0
    /\ NoRowsCreated

NextArtifact ==
    \/ \E t \in DOMAIN task, key \in 1..MaxRequests : Call_get_qp_file(t, key)
    \/ \E t \in DOMAIN task : Resume_get_qp_file(t)
    \/ \E t \in DOMAIN task : Resume_get_qp_file_failed(t)
    \/ \E t \in DOMAIN task : Resume_process_request(t)
    \/ \E t \in DOMAIN task : Resume_get_estimator(t)
    \/ \E t \in DOMAIN task : Resume_get_algo_class(t)
    \/ \E t \in DOMAIN task : Resume_get_catalog_tag_class(t)
    \/ \E t \in DOMAIN task : Resume_build_estimator(t)
    \/ \E t \in DOMAIN task,
          ext \in {"ok", "run_raises", "run_raises_request_error", "write_raises"} :
           Run_process_request(t, ext)
    \/ \E t \in DOMAIN task : Update_process_request(t)
    \/ \E t \in DOMAIN task : Refresh_process_request(t)
    \/ clear

SpecArtifact == InitArtifact /\ [][NextArtifact]_vars

\* The destination as a function of the two names.
ArtifactPath(dataset_name, estimator_name) ==
    [kind |-> "path", root |-> "archive/qp_files", dataset |-> dataset_name,
     file |-> estimator_name]

PathOfRequest(row) ==
    ArtifactPath(DatasetTable[row.dataset_id].name, EstimatorTable[row.estimator_id].name)

\* C14: the path an execution writes to a Request row, and the path
\* get_qp_file returns, is the function ArtifactPath of the dataset's name and
\* the estimator's name: two Requests with the same dataset and estimator
\* hold the same path whenever both hold one, and a get_qp_file call that
\* follows a successful get_qp_file of the same request returns an equal path.
C14_PathFromNames ==
    /\ \A r \in DOMAIN Request :
           Request[r].qp_file_path # None
           => Request[r].qp_file_path = PathOfRequest(Request[r])
    /\ \A r1, r2 \in DOMAIN Request :
           (/\ Request[r1].dataset_id = Request[r2].dataset_id
            /\ Request[r1].estimator_id = Request[r2].estimator_id
            /\ Request[r1].qp_file_path # None
            /\ Request[r2].qp_file_path # None)
           => Request[r1].qp_file_path = Request[r2].qp_file_path
    /\ \A t \in DOMAIN task :
           (Done(t, "get_qp_file") /\ task[t].res.kind = "value")
           => /\ task[t].res.value = PathOfRequest(Request[task[t].key])
              /\ task[t].prev.kind = "value" => task[t].res = task[t].prev

C14_Witness ==
    \E r1, r2 \in DOMAIN Request :
        /\ r1 # r2
        /\ Finished(Request[r1])
        /\ Finished(Request[r2])
        /\ Request[r1].time_finished # Request[r2].time_finished
        /\ Request[r1].qp_file_path = Request[r2].qp_file_path

\* ---- C15
\* Task t takes a step that calls get_catalog_tag_tree(rebuild=False).
CallsForSnapshot(t) ==
    /\ CanCall(t)
    /\ task'[t] # task[t]
    /\ task'[t].op = "get_catalog_tag_tree"
    /\ task'[t].key = 0
    /\ task'[t].cleared = "no"

\* Task t takes the step in which its get_catalog_tag_tree call returns a tree.
ReceivesTree(t) ==
    /\ task'[t] # task[t]
    /\ task'[t].pc = "done"
    /\ task'[t].op = "get_catalog_tag_tree"
    /\ task'[t].res.kind = "value"
    /\ CanCall(t) => task'[t].cleared = "no"

BuildSteps == {"build_tree", "tree_algos", "tree_leaf"}

\* Task t, inside a rebuild, takes a step that does not complete the build.
BuildsOn(t) ==
    /\ task[t].pc \in BuildSteps
    /\ task'[t] # task[t]
    /\ task'[t].cleared = task[t].cleared
    /\ ~(task'[t].pc = "done" /\ task'[t].res.kind = "value")

\* C16: no step of a rebuild but the one that completes it changes the stored
\* snapshot, so a get_catalog_tag_tree call that raises part-way leaves the
\* snapshot held before the call; and the call with rebuild=False that
\* follows a call that raised, with a snapshot present, returns that snapshot.
C16_FailedRebuildKeepsSnapshot ==
    [][\A t \in DOMAIN task :
           /\ BuildsOn(t) => tree' = tree
           /\ (/\ CallsForSnapshot(t)
               /\ Done(t, "get_catalog_tag_tree")
               /\ task[t].res.kind = "exc"
               /\ tree # None)
              => task'[t].res = Value(tree) /\ tree' = tree]_vars

\* A rebuild has raised part-way while a snapshot of an earlier build is
\* stored.
C16_Witness ==
    \E t \in DOMAIN task :
        /\ Done(t, "get_catalog_tag_tree")
        /\ task[t].key = 1
        /\ task[t].res.kind = "exc"
        /\ task[t].cleared = "no"
        /\ tree # None
        /\ DOMAIN tree.catalog_tags # {}

\* ---- C17
\* The most CatalogTag rows the Row Store holds: one more than get_rows lists.
MaxCatalogTagRows == 101

\* The Row Store holds the fixture's rows, with CatalogTag rows 1..n.
InitRows ==
    /\ Algorithm = DOMAIN AlgorithmTable
    /\ \E n \in {2, get_rows_limit, MaxCatalogTagRows} : CatalogTag = 1..n
    /\ Model = DOMAIN ModelTable
    /\ Estimator = DOMAIN EstimatorTable
    /\ Dataset = DOMAIN DatasetTable
    /\ Request = EmptyDict
    /\ next_request_id = 1
    /\ algorithms = EmptyDict
    /\ catalog_tags = EmptyDict
    /\ estimators = EmptyDict
    /\ qp_files = EmptyDict
    /\ tree = None
    /\ task = [t \in {"t1"} |-> IdleTask]
    /\ clock = 0
    /\ ndeletes = 0
    /\ NoRowsCreated

DeletableRows == {<<"Algorithm", 2>>, <<"CatalogTag", 2>>}

NextRows ==
    \/ \E t \in DOMAIN task, rebuild \in BOOLEAN : Call_get_catalog_tag_tree(t, rebuild)
    \/ \E t \in DOMAIN task : Resume_build_catalog_tag_tree_tags(t)
    \/ \E t \in DOMAIN task : Resume_build_catalog_tag_tree_algos(t)
    \/ \E t \in DOMAIN task, reversed \in BOOLEAN :
           Resume_build_catalog_tag_tree_leaf(t, reversed)
    \/ \E t \in DOMAIN task : Resume_get_catalog_tag_tree(t)
    \/ clear
    \/ \E row \in DeletableRows : Delete_row(row[1], row[2])

SpecRows == InitRows /\ [][NextRows]_vars

\* C17 (as claimed): the tree a get_catalog_tag_tree(rebuild=True) call
\* returns has a leaf for every CatalogTag row of the Row Store (rows are
\* never added here, so every row present now was present at the call).
C17_TreeHasEveryCatalogTag ==
    \A t \in DOMAIN task :
        (/\ Done(t, "get_catalog_tag_tree")
         /\ task[t].key = 1
         /\ task[t].res.kind = "value")
        => \A catalog_tag_ \in CatalogTag :
               /\ catalog_tag_name(catalog_tag_) \in DOMAIN task[t].res.value.catalog_tags
               /\ task[t].res.value.catalog_tags[catalog_tag_name(catalog_tag_)].catalog_tag
                      = catalog_tag_

\* ---- C18
\* The Row Store holds Request 1 of Estimator 1 against Dataset 1 and a
\* second Request: of the same Estimator against the same Dataset, of
\* another Estimator, or against another Dataset.
InitTree ==
    /\ Algorithm = DOMAIN AlgorithmTable
    /\ CatalogTag = DOMAIN CatalogTagTable
    /\ Model = DOMAIN ModelTable
    /\ Estimator = DOMAIN EstimatorTable
    /\ Dataset = DOMAIN DatasetTable
    /\ \E second \in {<<1, 1>>, <<2, 1>>, <<1, 2>>} :
           Request = <<create_request(1, 1), create_request(second[1], second[2])>>
    /\ next_request_id = 3
    /\ algorithms = EmptyDict
    /\ catalog_tags = EmptyDict
    /\ estimators = EmptyDict
    /\ qp_files = EmptyDict
    /\ tree = None
    /\ task = [t \in {"t1"} |-> IdleTask]
    /\ clock = 0
    /\ ndeletes = 0
    /\ NoRowsCreated

NextTree ==
    \/ \E t \in DOMAIN task, rebuild \in BOOLEAN : Call_get_catalog_tag_tree(t, rebuild)
    \/ \E t \in DOMAIN task : Resume_build_catalog_tag_tree_tags(t)
    \/ \E t \in DOMAIN task : Resume_build_catalog_tag_tree_algos(t)
    \/ \E t \in DOMAIN task, reversed \in BOOLEAN :
           Resume_build_catalog_tag_tree_leaf(t, reversed)
    \/ \E t \in DOMAIN task : Resume_get_catalog_tag_tree(t)
    \/ \E t \in DOMAIN task, catalog_tag_ \in DOMAIN CatalogTagTable,
          dataset_id \in {0} \cup DOMAIN DatasetTable :
           Filter_for_dataset(t, catalog_tag_name(catalog_tag_), dataset_id)
    \/ clear
    \/ \E row \in Deletable : Delete_row(row[1], row[2])

SpecTree == InitTree /\ [][NextTree]_vars

\* The EstimatorLeaf entries of a tree, as <<tag name, algo, model, estimator>>.
EstimatorLeaves(the_tree) ==
    {p \in (DOMAIN the_tree.catalog_tags) \X (DOMAIN AlgorithmTable)
           \X (DOMAIN ModelTable) \X (DOMAIN EstimatorTable) :
        /\ p[2] \in DOMAIN the_tree.catalog_tags[p[1]].algos
        /\ p[3] \in DOMAIN the_tree.catalog_tags[p[1]].algos[p[2]].models
        /\ p[4] \in DOMAIN the_tree.catalog_tags[p[1]].algos[p[2]].models[p[3]].estimators}

EstimatorLeafAt(the_tree, p) ==
    the_tree.catalog_tags[p[1]].algos[p[2]].models[p[3]].estimators[p[4]]

\* C18 (as claimed): filter_for_dataset does not change the cached snapshot:
\* every Estimator leaf of the stored tree has request = None, whatever
\* projections callers have taken of it.
C18_ProjectionLeavesSnapshot ==
    tree # None
    => \A p \in EstimatorLeaves(tree) : EstimatorLeafAt(tree, p).request = None

\* ---- C19
\* Task t holds the projection of a Dataset of the tag.
ProjectedDataset(t) ==
    /\ task[t].pc = "done"
    /\ task[t].projection # None
    /\ task[t].projection.dataset.kind = "Dataset"

\* The request mapping of the projected Dataset in the tree task t holds.
RequestsProjected(t) ==
    LET the_copy == task[t].projection
    IN  task[t].res.value.catalog_tags[catalog_tag_name(the_copy.catalog_tag)]
            .datasets[the_copy.dataset.id].requests

\* The positions of the Requests of Estimator e in that mapping.
PositionsOf(t, e) ==
    {i \in 1..Len(RequestsProjected(t)) : RequestsProjected(t)[i].estimator_id = e}

MaxOf(S) == CHOOSE x \in S : \A y \in S : y <= x

\* C19: in the projection filter_for_dataset(d) returns for a dataset d of the
\* tag, the leaf of an Estimator with no Request against d carries None, and
\* the leaf of an Estimator with Requests against d carries the last of them
\* in d's request mapping order, which is also request_by_estimator's entry.
C19_LastRequestAttached ==
    \A t \in DOMAIN task :
        ProjectedDataset(t)
        => LET the_copy == task[t].projection
           IN  \A a \in DOMAIN the_copy.algos :
               \A m \in DOMAIN the_copy.algos[a].models :
               \A e \in DOMAIN the_copy.algos[a].models[m].estimators :
                   LET attached == the_copy.algos[a].models[m].estimators[e].request
                   IN  IF PositionsOf(t, e) = {}
                       THEN /\ attached = None
                            /\ e \notin DOMAIN the_copy.request_by_estimator
                       ELSE /\ attached = RequestsProjected(t)[MaxOf(PositionsOf(t, e))]
                            /\ attached = the_copy.request_by_estimator[e]

\* A projection in which Estimator 1 has two Requests against the Dataset and
\* its leaf carries the second of the mapping, next to an Estimator without
\* a Request.
C19_Witness ==
    \E t \in DOMAIN task :
        /\ ProjectedDataset(t)
        /\ Cardinality(PositionsOf(t, 1)) = 2
        /\ PositionsOf(t, 2) = {}
        /\ \E a \in DOMAIN task[t].projection.algos :
           \E m \in DOMAIN task[t].projection.algos[a].models :
               LET estimators_ == task[t].projection.algos[a].models[m].estimators
               IN  /\ {1, 2} \subseteq DOMAIN estimators_
                   /\ estimators_[1].request = RequestsProjected(t)[2]
                   /\ estimators_[1].request # RequestsProjected(t)[1]
                   /\ estimators_[2].request = None

\* ---- C20
\* Two callers and the Requests of RequestInputs.
InitRace ==
    /\ Algorithm = DOMAIN AlgorithmTable
    /\ CatalogTag = DOMAIN CatalogTagTable
    /\ Model = DOMAIN ModelTable
    /\ Estimator = DOMAIN EstimatorTable
    /\ Dataset = DOMAIN DatasetTable
    /\ Request = [r \in 1..MaxRequests |->
                     create_request(RequestInputs[r][1], RequestInputs[r][2])]
    /\ next_request_id = MaxRequests + 1
    /\ algorithms = EmptyDict
    /\ catalog_tags = EmptyDict
    /\ estimators = EmptyDict
    /\ qp_files = EmptyDict
    /\ tree = None
    /\ task = [t \in {"t1", "t2"} |-> IdleTask]
    /\ clock = 0
    /\ ndeletes = 0
    /\ NoRowsCreated

\* Task t has not called yet and no caller has returned: a call made now runs
\* concurrently with every other call made.
Races(t) ==
    /\ task[t].pc = "idle"
    /\ \A u \in DOMAIN task : task[u].pc # "done"

NextRace ==
    \/ \E t \in DOMAIN task, key \in DOMAIN AlgorithmTable :
           Races(t) /\ Call_get_algo_class(t, key)
    \/ \E t \in DOMAIN task, key \in DOMAIN CatalogTagTable :
           Races(t) /\ Call_get_catalog_tag_class(t, key)
    \/ \E t \in DOMAIN task, key \in DOMAIN EstimatorTable :
           Races(t) /\ Call_get_estimator(t, key)
    \/ \E t \in DOMAIN task, key \in 1..MaxRequests :
           Races(t) /\ Call_get_qp_file(t, key)
    \/ \E t \in DOMAIN task : Resume_get_algo_class_failed(t)
    \/ \E t \in DOMAIN task : Resume_get_algo_class(t)
    \/ \E t \in DOMAIN task : Resume_get_catalog_tag_class_failed(t)
    \/ \E t \in DOMAIN task : Resume_get_catalog_tag_class(t)
    \/ \E t \in DOMAIN task : Resume_build_estimator(t)
    \/ \E t \in DOMAIN task : Resume_get_estimator_failed(t)
    \/ \E t \in DOMAIN task : Resume_get_estimator(t)
    \/ \E t \in DOMAIN task : Resume_process_request(t)
    \/ \E t \in DOMAIN task,
          ext \in {"ok", "run_raises", "run_raises_request_error", "write_raises"} :
           Run_process_request(t, ext)
    \/ \E t \in DOMAIN task : Update_process_request(t)
    \/ \E t \in DOMAIN task : Refresh_process_request(t)
    \/ \E t \in DOMAIN task : Resume_get_qp_file(t)

SpecRace == InitRace /\ [][NextRace]_vars

\* Tasks t and u have both returned from a call of the same handler for the
\* same key.
BothReturned(t, u) ==
    /\ t # u
    /\ task[t].pc = "done"
    /\ task[u].pc = "done"
    /\ task[t].op \in FourOps
    /\ task[u].op = task[t].op
    /\ task[u].key = task[t].key

\* C20 (as claimed): after two concurrent first calls for one key have both
\* returned, the slot of the key holds a terminal state (Failed or a value),
\* and what each caller received agrees with it: the failure if the slot is
\* Failed, the slot's value otherwise.
C20_RaceRecordsOneOutcome ==
    \A t, u \in DOMAIN task :
        BothReturned(t, u)
        => /\ task[t].key \in DOMAIN SlotsOf(task[t].op)
           /\ \A x \in {t, u} :
                  IF SlotsOf(task[t].op)[task[t].key] = None
                  THEN task[x].res.kind = "exc"
                  ELSE task[x].res = Value(SlotsOf(task[t].op)[task[t].key])

\* ---- C21
\* One caller that executes Requests not finished yet and may be cancelled at
\* any await.
NextCancel ==
    \/ \E t \in DOMAIN task, key \in 1..MaxRequests :
           /\ key \in DOMAIN Request
           /\ ~Finished(Request[key])
           /\ Call_get_qp_file(t, key)
    \/ \E t \in DOMAIN task : Resume_get_qp_file(t)
    \/ \E t \in DOMAIN task : Resume_get_qp_file_failed(t)
    \/ \E t \in DOMAIN task : Resume_process_request(t)
    \/ \E t \in DOMAIN task : Resume_get_estimator(t)
    \/ \E t \in DOMAIN task : Resume_get_estimator_failed(t)
    \/ \E t \in DOMAIN task : Resume_get_algo_class(t)
    \/ \E t \in DOMAIN task : Resume_get_catalog_tag_class(t)
    \/ \E t \in DOMAIN task : Resume_build_estimator(t)
    \/ \E t \in DOMAIN task,
          ext \in {"ok", "run_raises", "run_raises_request_error", "write_raises"} :
           Run_process_request(t, ext)
    \/ \E t \in DOMAIN task : Update_process_request(t)
    \/ \E t \in DOMAIN task : Refresh_process_request(t)
    \/ \E t \in DOMAIN task : Cancel(t)

InitCancel ==
    /\ Algorithm = DOMAIN AlgorithmTable
    /\ CatalogTag = DOMAIN CatalogTagTable
    /\ Model = DOMAIN ModelTable
    /\ Estimator = DOMAIN EstimatorTable
    /\ Dataset = DOMAIN DatasetTable
    /\ Request = [r \in 1..MaxRequests |->
                     create_request(RequestInputs[r][1], RequestInputs[r][2])]
    /\ next_request_id = MaxRequests + 1
    /\ algorithms = EmptyDict
    /\ catalog_tags = EmptyDict
    /\ estimators = EmptyDict
    /\ qp_files = EmptyDict
    /\ tree = None
    /\ task = [t \in {"t1"} |-> IdleTask]
    /\ clock = 0
    /\ ndeletes = 0
    /\ NoRowsCreated

SpecCancel == InitCancel /\ [][NextCancel]_vars

\* Task t's get_qp_file call was cancelled before RowMixin.update_values wrote.
CancelledBeforeWrite(t) ==
    /\ Done(t, "get_qp_file")
    /\ IsExc(task[t].res, "CancelledError")
    /\ "update_values" \notin task[t].did

\* C21: a request execution cancelled at an await before the completion
\* write leaves the Request row with qp_file_path and time_finished both
\* None, and the Request's slot holds no path.
C21_CancelledLeavesUnfinished ==
    \A t \in DOMAIN task :
        CancelledBeforeWrite(t)
        => /\ Request[task[t].key].qp_file_path = None
           /\ Request[task[t].key].time_finished = None
           /\ task[t].key \in DOMAIN qp_files => qp_files[task[t].key] = None

\* The execution was cancelled at the await of update_values, after the
\* estimation run had produced its result.
C21_Witness ==
    \E t \in DOMAIN task :
        /\ CancelledBeforeWrite(t)
        /\ task[t].did \cap Runs # {}
        /\ ~Finished(Request[task[t].key])

\* ---- C22
\* An empty Row Store and archive, as the fixtures of tests/db create them;
\* callers create rows and load files in any order.
InitLoad ==
    /\ Algorithm = {}
    /\ CatalogTag = {}
    /\ Model = {}
    /\ Estimator = {}
    /\ Dataset = {}
    /\ Request = EmptyDict
    /\ next_request_id = 1
    /\ algorithms = EmptyDict
    /\ catalog_tags = EmptyDict
    /\ estimators = EmptyDict
    /\ qp_files = EmptyDict
    /\ tree = None
    /\ task = [t \in {"t1"} |-> IdleTask]
    /\ clock = 0
    /\ ndeletes = 0
    /\ tables = [table \in NamedTables |-> <<>>]
    /\ files = EmptyDict
    /\ ret = NoCall
    /\ schema \in {"declared", "expected"}

\* The keywords callers pass to create_row.
CreateKwargs(table) ==
    CASE table = "Dataset" ->
             [name : {"dataset"}, path : {None, a_path}, data : {None, data_of(0), data_of(2)},
              class_name : {None}, catalog_tag_name : {catalog_config_dict[1].name},
              implemented : BOOLEAN]
      [] table = "CatalogTag" ->
             {class_kwargs(catalog_config_dict[i]) : i \in 1..Len(catalog_config_dict)}
      [] OTHER ->
             [name : {"a_name"}, path : {None}, data : {None}, class_name : {None},
              catalog_tag_name : {None}, implemented : {TRUE}]

NextLoad ==
    \/ \E table \in {"CatalogTag", "Dataset", "Estimator", "ObjectRef"} :
           \E kwargs \in CreateKwargs(table) : Create_row(table, kwargs)
    \/ Load_algorithms_from_rail_env
    \/ Load_catalog_tags_from_rail_env
    \/ \E content \in {"v1", "v2"} :
           Load_model_from_file("a_model", content, cat_estimator_stages[1].name,
                                catalog_config_dict[1].name)
    \/ \E content \in {"v1", "v2"} :
           Load_dataset_from_file("dataset", content, catalog_config_dict[1].name)

SpecLoad == InitLoad /\ [][NextLoad]_vars

\* The step is a create_row call on table.
CreatesRow(table) ==
    /\ <<tables, ret>> # <<tables', ret'>>
    /\ ret'.op = "create_row"
    /\ ret'.table = table

\* data holds inline values: a dict that is not empty.
HasValues(data) == data # None /\ data.size > 0

\* C22: every Dataset row that creation accepts has exactly one of path and
\* inline data populated; creation with neither (for a CatalogTag that exists)
\* fails with the missing-input error and creates no row, and no accepted
\* Dataset has both.
C22_ExactlyOneOfPathAndData ==
    [][/\ \A i \in 1..Len(tables'["Dataset"]) :
              (tables'["Dataset"][i].path # None) # HasValues(tables'["Dataset"][i].data)
       /\ /\ CreatesRow("Dataset")
          /\ ret'.kwargs.path = None
          /\ ~HasValues(ret'.kwargs.data)
          /\ ret'.kwargs.catalog_tag_name \in names_of(tables["CatalogTag"])
          => /\ IsExc(ret'.res, "RAILMissingRowCreateInputError")
             /\ tables' = tables]_vars

\* ---- C23
\* The step is a create_row call on table whose keywords are accepted and
\* whose name is the name of a row of the table.
CreatesDuplicate(table) ==
    /\ CreatesRow(table)
    /\ get_create_kwargs(tables, table, ret'.kwargs).kind = "value"
    /\ ret'.kwargs.name \in names_of(tables[table])

\* C23: create_row for a CatalogTag, Dataset, Estimator or ObjectRef whose
\* name is the name of an existing row of that table fails with
\* RAILIntegrityError and leaves the table with the same rows.
C23_DuplicateNameIsRefused ==
    [][\A table \in {"CatalogTag", "Dataset", "Estimator", "ObjectRef"} :
           CreatesDuplicate(table)
           => /\ IsExc(ret'.res, "RAILIntegrityError")
              /\ tables'[table] = tables[table]]_vars

\* ---- C24
\* Every Algorithm and CatalogTag row of the rail environment exists.
EnvRowsExist ==
    /\ \A i \in 1..Len(cat_estimator_stages) :
           cat_estimator_stages[i].name \in names_of(tables["Algorithm"])
    /\ \A i \in 1..Len(catalog_config_dict) :
           catalog_config_dict[i].name \in names_of(tables["CatalogTag"])

\* The step is a call of one of the two load_*_from_rail_env methods.
LoadsFromRailEnv ==
    /\ <<tables, ret>> # <<tables', ret'>>
    /\ ret'.op \in {"load_algorithms_from_rail_env", "load_catalog_tags_from_rail_env"}

\* C24: reloading is harmless; when every Algorithm and CatalogTag row
\* exists, load_algorithms_from_rail_env and load_catalog_tags_from_rail_env
\* complete without raising and leave both tables with the same rows.
C24_ReloadIsHarmless ==
    [][LoadsFromRailEnv /\ EnvRowsExist
       => /\ ret'.res.kind = "value"
          /\ tables'["Algorithm"] = tables["Algorithm"]
          /\ tables'["CatalogTag"] = tables["CatalogTag"]]_vars

\* The same under the uniqueness tests/db expect of create_row.
C24_ReloadIsHarmlessWithUniqueNames ==
    [][LoadsFromRailEnv /\ EnvRowsExist /\ schema = "expected"
       => /\ ret'.res.kind = "value"
          /\ tables'["Algorithm"] = tables["Algorithm"]
          /\ tables'["CatalogTag"] = tables["CatalogTag"]]_vars

\* ---- C25
\* One caller executing Requests for a file-backed and for an inline Dataset.
InitRun ==
    /\ Algorithm = DOMAIN AlgorithmTable
    /\ CatalogTag = DOMAIN CatalogTagTable
    /\ Model = DOMAIN ModelTable
    /\ Estimator = DOMAIN EstimatorTable
    /\ Dataset = DOMAIN DatasetTable
    /\ Request = [r \in 1..(MaxRequests + 1) |->
                     create_request(RequestInputs[r][1], RequestInputs[r][2])]
    /\ next_request_id = MaxRequests + 2
    /\ algorithms = EmptyDict
    /\ catalog_tags = EmptyDict
    /\ estimators = EmptyDict
    /\ qp_files = EmptyDict
    /\ tree = None
    /\ task = [t \in {"t1"} |-> IdleTask]
    /\ clock = 0
    /\ ndeletes = 0
    /\ NoRowsCreated

NextRun ==
    \/ \E t \in DOMAIN task, key \in 1..(MaxRequests + 1) :
           /\ key \in DOMAIN Request
           /\ ~Finished(Request[key])
           /\ Call_get_qp_file(t, key)
    \/ \E t \in DOMAIN task : Resume_get_qp_file(t)
    \/ \E t \in DOMAIN task : Resume_process_request(t)
    \/ \E t \in DOMAIN task : Resume_get_estimator(t)
    \/ \E t \in DOMAIN task : Resume_get_estimator_failed(t)
    \/ \E t \in DOMAIN task : Resume_get_algo_class(t)
    \/ \E t \in DOMAIN task : Resume_get_catalog_tag_class(t)
    \/ \E t \in DOMAIN task : Resume_build_estimator(t)
    \/ \E t \in DOMAIN task,
          ext \in {"ok", "run_raises", "run_raises_request_error", "write_raises"} :
           Run_process_request(t, ext)
    \/ \E t \in DOMAIN task : Update_process_request(t)
    \/ \E t \in DOMAIN task : Refresh_process_request(t)

SpecRun == InitRun /\ [][NextRun]_vars

\* Task t's step is lines 159-170 of _process_request: the estimation run.
RunsEstimation(t) == task[t].pc = "dataset_row" /\ task'[t].pc # "dataset_row"

\* What task t's step ran of the estimation library.
RanInStep(t) == task'[t].did \ task[t].did

\* C25: each execution runs exactly one estimation entry point, the batch one
\* iff the Dataset has a path, otherwise the single-batch one followed by one
\* write of the result handle; the Request row is updated only after the
\* result was produced, and not if the run or the write raised.
C25_OneEntryPointThenUpdate ==
    [][\A t \in DOMAIN task :
           /\ RunsEstimation(t)
              => /\ IF DatasetTable[task[t].request_.dataset_id].path # "None"
                    THEN RanInStep(t) = {"run_cat_estimator_stage"}
                    ELSE /\ "estimate_single_pz" \in RanInStep(t)
                         /\ RanInStep(t) \subseteq {"estimate_single_pz", "write"}
                         /\ task'[t].pc = "update_values" => "write" \in RanInStep(t)
                 /\ Request' = Request
                 /\ task'[t].pc = "update_values" <=> task'[t].res.kind # "exc"
           /\ Request' # Request
              => /\ task[t].pc = "update_values"
                 /\ \/ "run_cat_estimator_stage" \in task[t].did
                    \/ {"estimate_single_pz", "write"} \subseteq task[t].did]_vars

\* An execution for the inline Dataset ran estimate_single_pz, wrote the
\* handle and then updated its Request.
C25_Witness ==
    \E t \in DOMAIN task :
        /\ task[t].pc = "done"
        /\ task[t].op = "get_qp_file"
        /\ {"estimate_single_pz", "write"} \subseteq task[t].did
        /\ task[t].key \in DOMAIN Request
        /\ Finished(Request[task[t].key])

\* ---- C26
\* Task t's step is one pass of the loop of _build_catalog_tag_tree that
\* stored the leaf of its CatalogTag row.
BuildsLeaf(t) ==
    /\ task[t].pc = "tree_leaf"
    /\ task[t].tags # <<>>
    /\ task'[t].pc = "tree_leaf"
    /\ task'[t].tags = Tail(task[t].tags)

\* leaf groups the Algorithms algos and the Models the Row Store holds for
\* catalog_tag_: every Algorithm has an AlgoLeaf, and every Model is under the
\* Algorithm of its algo_id and under no other.
GroupsByAlgorithm(leaf, catalog_tag_, algos) ==
    /\ \A i \in 1..Len(algos) : algos[i] \in DOMAIN leaf.algos
    /\ \A a \in DOMAIN leaf.algos :
           DOMAIN leaf.algos[a].models =
               {m \in Model : /\ ModelTable[m].catalog_tag_id = catalog_tag_
                              /\ ModelTable[m].algo_id = a}
    /\ \A m \in Model :
           ModelTable[m].catalog_tag_id = catalog_tag_
           => ModelTable[m].algo_id \in DOMAIN leaf.algos

\* C26: after a successful build every CatalogTag leaf groups every Algorithm
\* the Row Store returned, those without a Model of the tag with an empty
\* mapping, and each Model of the tag is under exactly the Algorithm of its
\* algo_id; the installed tree holds these leaves.
C26_EveryAlgorithmGrouped ==
    [][\A t \in DOMAIN task :
           /\ BuildsLeaf(t)
              => GroupsByAlgorithm(
                     task'[t].catalog_tag_dict[catalog_tag_name(Head(task[t].tags))],
                     Head(task[t].tags), task[t].algos)
           /\ task[t].pc = "tree_leaf" /\ task[t].tags = <<>> /\ task'[t].pc = "done"
              => /\ task'[t].res.kind = "value"
                 /\ tree' = task'[t].res.value
                 /\ tree'.catalog_tags = task[t].catalog_tag_dict]_vars

\* A build returned a tree whose com_cam leaf has the Algorithm of its Model
\* and an Algorithm with no Model.
C26_Witness ==
    \E t \in DOMAIN task :
        /\ task[t].pc = "done"
        /\ task[t].op = "get_catalog_tag_tree"
        /\ "get_rows" \in task[t].did
        /\ task[t].res.kind = "value"
        /\ "com_cam" \in DOMAIN task[t].res.value.catalog_tags
        /\ LET leaf == task[t].res.value.catalog_tags["com_cam"]
           IN  /\ DOMAIN leaf.algos = {1, 2}
               /\ DOMAIN leaf.algos[1].models = {1}
               /\ DOMAIN leaf.algos[2].models = {}

\* ---- C27
\* The step is a load_model_from_file or load_dataset_from_file call that
\* raised RAILIntegrityError while a row named as the call's row exists.
LoadFailsOnExistingName(table) ==
    /\ <<tables, files, ret>> # <<tables', files', ret'>>
    /\ ret'.op = (IF table = "Model" THEN "load_model_from_file" ELSE "load_dataset_from_file")
    /\ IsExc(ret'.res, "RAILIntegrityError")
    /\ ret'.name \in names_of(tables[table])

Projects(t) ==
    /\ task[t].pc = "done"
    /\ task'[t].pc = "done"
    /\ task'[t] # task[t]
    /\ task'[t].op = "get_catalog_tag_tree"
    /\ "filter_for_dataset" \in task'[t].did
    /\ task'[t].projection # None

\* No EstimatorLeaf under algos carries a Request.
NoRequestAttached(algos) ==
    \A a \in DOMAIN algos : \A m \in DOMAIN algos[a].models :
        \A e \in DOMAIN algos[a].models[m].estimators :
            algos[a].models[m].estimators[e].request = None

\* The leaf task t projected in this step, as the step leaves it.
ProjectedLeaf(t) ==
    task'[t].res.value.catalog_tags[catalog_tag_name(task'[t].projection.catalog_tag)]

\* C28: the result of filter_for_dataset depends on the leaf and the dataset
\* id only; after any earlier calls on the leaf, a call with a dataset id that
\* is None or not in the leaf returns a projection whose Estimator leaves all
\* have request None, and the projection an earlier call returned is not
\* altered by a later call.
C28_ProjectionIgnoresEarlierCalls ==
    [][\A t \in DOMAIN task :
           Projects(t)
           => /\ task'[t].projection.dataset = None
                 => NoRequestAttached(task'[t].projection.algos)
              /\ /\ task[t].projection # None
                 /\ task[t].projection.catalog_tag = task'[t].projection.catalog_tag
                 => held_projection(task[t].projection, ProjectedLeaf(t))
                        = task[t].projection]_vars

\* ---- C29
\* Task t's get_estimator or get_qp_file call has returned or raised, and
\* clear() ran while it was suspended at one of its awaits.
ClearedWhileSuspended(t) ==
    /\ task[t].pc = "done"
    /\ task[t].op \in {"get_estimator", "get_qp_file"}
    /\ task[t].cleared = "during"

\* C29: a clear() is not undone by a resolution that started before it; once
\* a get_estimator(k) or get_qp_file(k) call that was suspended during clear()
\* has completed, slot k is not Failed.
C29_ClearIsNotUndone ==
    \A t \in DOMAIN task :
        ClearedWhileSuspended(t)
        => ~(/\ task[t].key \in DOMAIN SlotsOf(task[t].op)
             /\ SlotsOf(task[t].op)[task[t].key] = None)

\* The same for the attempt that failed on what it read before clear(): the
\* Failed slot of a dependency.
C29_StaleFailureNotRecorded ==
    \A t \in DOMAIN task :
        /\ ClearedWhileSuspended(t)
        /\ task[t].res.kind = "exc"
        /\ \E i \in 1..Len(task[t].res.msg) :
               task[t].res.msg[i] \in {"Failed to load alogrithm", "Failed to load catalog_tags"}
        => ~(/\ task[t].key \in DOMAIN SlotsOf(task[t].op)
             /\ SlotsOf(task[t].op)[task[t].key] = None)

\* ---- C30
\* Task t's step is a segment of its get_estimator call.
ConstructsEstimator(t) ==
    /\ task[t].op = "get_estimator"
    /\ task[t].pc \notin {"idle", "done"}
    /\ task'[t].pc # task[t].pc

\* How far _build_estimator has come at an await: the Estimator row, the
\* Algorithm class, the CatalogTag class, the Model row.
StageOf(pc) ==
    CASE pc \in {"est_row", "est_failed_row"} -> 0
      [] pc \in {"algo_row", "algo_failed_row"} -> 1
      [] pc \in {"tag_row", "tag_failed_row"} -> 2
      [] pc = "model_row" -> 3
      [] OTHER -> 4

\* C30: estimator construction resolves the Algorithm class, then the
\* CatalogTag class, then the Model row, then the builder, and stops at the
\* first failure; a get_estimator call that fails in the Algorithm-class
\* resolution attempts none of the later steps and leaves the CatalogTag and
\* Request slot maps unchanged.
C30_ConstructionStopsAtFirstFailure ==
    [][\A t \in DOMAIN task :
           ConstructsEstimator(t)
           => /\ StageOf(task'[t].pc) > StageOf(task[t].pc)
              /\ StageOf(task'[t].pc) \in {2, 3} => task'[t].algo_class # None
              /\ "load_algorithm_class" \in RanInStep(t) => task[t].pc = "algo_row"
              /\ "load_catalog_tag_class" \in RanInStep(t) => task[t].pc = "tag_row"
              /\ "Model.get_row" \in RanInStep(t) => task[t].pc = "model_row"
              /\ "build_stage_instance" \in RanInStep(t) => "Model.get_row" \in task'[t].did
              /\ qp_files' = qp_files
              /\ StageOf(task[t].pc) <= 1 => catalog_tags' = catalog_tags
              /\ StageOf(task[t].pc) = 1 /\ task'[t].pc = "done"
                 => /\ task'[t].res.kind = "exc"
                    /\ task'[t].did \cap {"load_catalog_tag_class", "Model.get_row",
                                          "build_stage_instance"} = {}]_vars

\* A get_estimator call failed on the import of its Algorithm class.
C30_Witness ==
    \E t \in DOMAIN task :
        /\ Done(t, "get_estimator")
        /\ IsExc(task[t].res, "RAILImportError")
        /\ "Import of Algorithm failed because" \in
               {task[t].res.msg[i] : i \in 1..Len(task[t].res.msg)}
        /\ task[t].did = {"load_algorithm_class"}

====
